---------------------------- MODULE Spec2Model ----------------------------
(***************************************************************************)
(* Verification model of the vanity-address tooling:                       *)
(*   - the CREATE2 address formula of the Safe executor scripts            *)
(*     (lib/safe-config.js, the standalone deploy script, legacy verify.js)*)
(*   - the single-flow script run.js (mine -> verify -> optional deploy)   *)
(*     and the deploy.js scripts                                           *)
(*   - the OpenCL kernel's result buffer and pattern matcher               *)
(*   - the worker pool (stop flag, bounded result channel, control loop)   *)
(*   - the kernels' field and curve arithmetic and their Keccak-256        *)
(*   - the --salt-nonce argument of the executor's verify.js               *)
(*   - the configuration of executor/run.js (files, flags, defaults)       *)
(* Each part has its own specification (SpecFormula, SpecRun, SpecKernel,  *)
(* SpecPool, SpecMatch, SpecCurve, SpecKeccak, SpecNonce, SpecVerify,      *)
(* SpecDeploy, SpecField, SpecConfig); the variables of the other parts    *)
(* are held at their idle values.                                          *)
(***************************************************************************)
EXTENDS Integers, Sequences, FiniteSets, TLC

VARIABLES
    \* ---- CREATE2 formula (SpecFormula) ----
    fSpec,          \* the raw byte fields the caller means
    fArgs,          \* the hex-string arguments actually passed
    fLib,           \* result of lib/safe-config.js computeCreate2Address
    fStandalone,    \* result of the standalone deploy script's copy
    fLegacy,        \* result of legacy verify.js safeSalt + safeAddress
    \* ---- executor scripts run.js / deploy.js (SpecRun) ----
    script,         \* which script's main() is running
    pc,             \* where main() is suspended (the await it waits at)
    cli,            \* parseArgs(): the flags given
    envKey,         \* process.env.SAFE_DEPLOYER_PRIVATE_KEY is set
    config,         \* mergeConfig(loadConfig(cli.config), cli)
    safeConfig,     \* fetchSafeConfig(): factory, initCodeHash, initializerHash
    child,          \* the miner process: what it writes to stdout
    delivered,      \* characters of the miner's stdout already given to 'data'
    lastAddress,    \* run.js lastAddress (<<>> is null)
    lastSaltDec,    \* run.js lastSaltDec (<<>> is null)
    verified,       \* the verification step: what it was run on and its outcome
    answer,         \* the line typed at the confirmation prompt
    printed,        \* the messages written to the console
    exitStatus,     \* process exit status (-1 while running)
    walletClient,   \* a wallet client has been created
    txs,            \* the createProxyWithNonce transactions sent
    receipt,        \* the receipt status of the transaction
    \* ---- OpenCL kernel vanity_iterate_and_match, one batch (SpecKernel) ----
    items,          \* per work item: where it is, its idx, what it computed
    results,        \* __global gpu_result_t *results, and the memory behind it
    writers,        \* per slot of that memory: the work items that wrote to it
    result_count,   \* __global volatile uint *result_count
    max_results,    \* kernel argument max_results
    batch_offset,   \* kernel argument batch_offset
    \* ---- worker pool of the miner (SpecPool) ----
    wpc,            \* per worker: idle, scanning, sending, terminated
    wkind,          \* per worker: "cpu" or "gpu"
    pending,        \* per worker: confirmed hits not yet sent
    channel,        \* the bounded result channel
    received,       \* the results the pool's consumer has taken
    stop,           \* the shared stop flag
    poolPc,         \* the pool's control loop: polling, joining, returned
    joined,         \* the workers already joined
    target,         \* the target match count N
    capacity,       \* the capacity of the channel
    mismatches,     \* accelerator hits discarded by the host check
    reports,        \* a periodic throughput report has been made
    \* ---- pattern matcher of the kernel (SpecMatch) ----
    mAddr,          \* the 20-byte address
    mCfg,           \* gpu_pattern_config_t
    mResult,        \* what pattern_matches returned
    \* ---- curve arithmetic of the kernels (SpecCurve) ----
    cJob,           \* the call made: the function and its arguments
    cPc,            \* where the call is
    cBit,           \* the loop variable bit of the scalar multiplications
    cAcc,           \* the point being built (result, then offset_g / sum_jac)
    cAdds,          \* point additions made by the scalar multiplication
    cFrame,         \* the point operation waiting for fp_inv to return
    cInv,           \* the activation of fp_inv
    cInvCalls,      \* the calls of fp_inv made: caller, position, argument
    cOut,           \* what the call returned
    \* ---- Keccak-256 of the kernels (SpecKeccak) ----
    kIn,            \* the 64 input bytes
    kPc,            \* where keccak256_64bytes is
    kRound,         \* the round keccak_f1600 is about to run
    kSt,            \* st[25], the kernel's state
    kRef,           \* the state of the reference permutation, run alongside
    kCalls,         \* calls of keccak_f1600 made
    kOut,           \* the 32 output bytes
    \* ---- verify.js formula mode, the --salt-nonce argument (SpecNonce) ----
    nIn,            \* args.saltNonce, and what kind of string it is
    nOut,           \* saltNonceBytes, or the error thrown
    \* ---- verify.js in formula mode (SpecVerify) ----
    vScript,        \* which verify.js
    vArgs,          \* --factory, --init-code-hash, --initializer-hash, --salt-nonce
    vOut,           \* exit status, error and lines printed
    \* ---- the createProxyWithNonce call (SpecDeploy) ----
    dScript,        \* deploySafe, deploy.js or the standalone deploy.js
    dIn,            \* owners, threshold, config and salt nonce
    dOut,           \* the call made and the inputs of the formula
    \* ---- fp_mul of the kernels (SpecField) ----
    qA,             \* the factors
    qB,
    qOut,           \* what fp_mul returned
    \* ---- configuration of executor/run.js (SpecConfig) ----
    gCli,           \* what parseArgs returned
    gFiles,         \* the candidate config files: unset, missing, broken or ok
    gPc,            \* where main() is
    gLoaded,        \* the candidate loadConfig read its values from
    gFileConfig,    \* what loadConfig(cli.config) returned
    gConfig,        \* mergeConfig(fileConfig, cli)
    gUsed           \* the settings as handed to fetchSafeConfig and the miner

formulaVars == <<fSpec, fArgs, fLib, fStandalone, fLegacy>>

runVars == <<script, pc, cli, envKey, config, safeConfig, child, delivered,
             lastAddress, lastSaltDec, verified, answer, printed, exitStatus,
             walletClient, txs, receipt>>

kernelVars == <<items, results, writers, result_count, max_results, batch_offset>>

poolVars == <<wpc, wkind, pending, channel, received, stop, poolPc, joined,
              target, capacity, mismatches, reports>>

matchVars == <<mAddr, mCfg, mResult>>

curveVars == <<cJob, cPc, cBit, cAcc, cAdds, cFrame, cInv, cInvCalls, cOut>>

keccakVars == <<kIn, kPc, kRound, kSt, kRef, kCalls, kOut>>

nonceVars == <<nIn, nOut>>

verifyVars == <<vScript, vArgs, vOut>>

deployVars == <<dScript, dIn, dOut>>

fieldVars == <<qA, qB, qOut>>

configVars == <<gCli, gFiles, gPc, gLoaded, gFileConfig, gConfig, gUsed>>

vars == <<formulaVars, runVars, kernelVars, poolVars, matchVars, curveVars, keccakVars, nonceVars, verifyVars, deployVars, fieldVars, configVars>>

\* the variables outside each part
outsideFormula == <<runVars, kernelVars, poolVars, matchVars, curveVars, keccakVars, nonceVars, verifyVars, deployVars, fieldVars, configVars>>
outsideRun == <<formulaVars, kernelVars, poolVars, matchVars, curveVars, keccakVars, nonceVars, verifyVars, deployVars, fieldVars, configVars>>
outsideKernel == <<formulaVars, runVars, poolVars, matchVars, curveVars, keccakVars, nonceVars, verifyVars, deployVars, fieldVars, configVars>>
outsidePool == <<formulaVars, runVars, kernelVars, matchVars, curveVars, keccakVars, nonceVars, verifyVars, deployVars, fieldVars, configVars>>
outsideMatch == <<formulaVars, runVars, kernelVars, poolVars, curveVars, keccakVars, nonceVars, verifyVars, deployVars, fieldVars, configVars>>
outsideCurve == <<formulaVars, runVars, kernelVars, poolVars, matchVars, keccakVars, nonceVars, verifyVars, deployVars, fieldVars, configVars>>
outsideKeccak == <<formulaVars, runVars, kernelVars, poolVars, matchVars, curveVars, nonceVars, verifyVars, deployVars, fieldVars, configVars>>
outsideNonce == <<formulaVars, runVars, kernelVars, poolVars, matchVars, curveVars, keccakVars, verifyVars, deployVars, fieldVars, configVars>>
outsideVerify == <<formulaVars, runVars, kernelVars, poolVars, matchVars, curveVars, keccakVars, nonceVars, deployVars, fieldVars, configVars>>
outsideDeploy == <<formulaVars, runVars, kernelVars, poolVars, matchVars, curveVars, keccakVars, nonceVars, verifyVars, fieldVars, configVars>>
outsideField == <<formulaVars, runVars, kernelVars, poolVars, matchVars, curveVars, keccakVars, nonceVars, verifyVars, deployVars, configVars>>
outsideConfig == <<formulaVars, runVars, kernelVars, poolVars, matchVars, curveVars, keccakVars, nonceVars, verifyVars, deployVars, fieldVars>>

\* a call that has not happened, one that threw, one that returned
NotCalled == [called |-> FALSE, threw |-> FALSE, value |-> <<>>]
Threw(msg) == [called |-> TRUE, threw |-> TRUE, value |-> msg]
Returned(v) == [called |-> TRUE, threw |-> FALSE, value |-> v]

(***************************************************************************)
(* Bytes, hex strings and Buffer operations.  A string is a sequence of    *)
(* one-character strings; a Buffer is a sequence of bytes 0..255.          *)
(***************************************************************************)
HexLower == <<"0","1","2","3","4","5","6","7","8","9","a","b","c","d","e","f">>
HexUpper == <<"0","1","2","3","4","5","6","7","8","9","A","B","C","D","E","F">>

HexChars == {HexLower[i] : i \in 1..16} \cup {HexUpper[i] : i \in 1..16}

HexValues == [c \in HexChars |->
                 (CHOOSE i \in 1..16 : HexLower[i] = c \/ HexUpper[i] = c) - 1]

IsHexChar(c) == c \in HexChars

HexVal(c) == HexValues[c]

\* String.prototype.startsWith('0x')
StartsWith0x(s) == Len(s) >= 2 /\ s[1] = "0" /\ s[2] = "x"

strip0x(hex) == IF StartsWith0x(hex) THEN SubSeq(hex, 3, Len(hex)) ELSE hex

ensure0x(hex) == IF StartsWith0x(hex) THEN hex ELSE <<"0", "x">> \o hex

\* Buffer.from(str, 'hex'): decodes two characters per byte and stops at the
\* first pair that is not two hex digits (a trailing odd character is dropped).
BufferFromHex(s) ==
    LET pairs == Len(s) \div 2
        pairOk(k) == IsHexChar(s[2 * k - 1]) /\ IsHexChar(s[2 * k])
        n == IF \A k \in 1..pairs : pairOk(k) THEN pairs
             ELSE (CHOOSE k \in 1..pairs :
                       ~pairOk(k) /\ \A j \in 1..(k - 1) : pairOk(j)) - 1
    IN  [k \in 1..n |-> HexVal(s[2 * k - 1]) * 16 + HexVal(s[2 * k])]

\* buf.slice(start, end): bytes start .. end-1 (0-based), clipped to the buffer
BufSlice(buf, start, end) ==
    SubSeq(buf, start + 1, IF end < Len(buf) THEN end ELSE Len(buf))

\* buf.toString('hex'): lower-case hex, two characters per byte
BufToHex(buf) ==
    [i \in 1..(2 * Len(buf)) |->
        LET b == buf[(i + 1) \div 2]
        IN  IF i % 2 = 1 THEN HexLower[(b \div 16) + 1] ELSE HexLower[(b % 16) + 1]]

(***************************************************************************)
(* js-sha3 keccak256.arrayBuffer: an external library.  It is modelled as  *)
(* a digest of 32 bytes that depends on every input byte and on the order  *)
(* of the bytes: each byte b maps the accumulator h to 31*h + b + 1 modulo *)
(* a prime, the bytes are applied first to last, and the accumulator is    *)
(* spread over the 32 output bytes.  A changed field, field order or slice *)
(* changes the result.  (The accumulation is evaluated by halving the      *)
(* range: KeccakRange gives the map h |-> a*h + c of a range of bytes.)    *)
(***************************************************************************)
KeccakModulus == 32749

\* the map of bytes l followed by the map of bytes r
KeccakCompose(l, r) ==
    [a |-> (r.a * l.a) % KeccakModulus, c |-> (r.a * l.c + r.c) % KeccakModulus]

RECURSIVE KeccakRange(_, _, _)
KeccakRange(bytes, lo, hi) ==
    IF lo > hi THEN [a |-> 1, c |-> 0]
    ELSE IF lo = hi THEN [a |-> 31, c |-> bytes[lo] + 1]
    ELSE KeccakCompose(KeccakRange(bytes, lo, (lo + hi) \div 2),
                       KeccakRange(bytes, (lo + hi) \div 2 + 1, hi))

KeccakSqueeze(h, j) ==
    LET m == (h * (2 * j + 1) + j * 7919) % KeccakModulus
    IN  IF j % 2 = 1 THEN m % 256 ELSE (m \div 128) % 256

jsKeccak256(bytes) ==
    LET f == KeccakRange(bytes, 1, Len(bytes))
        h == (f.a * (Len(bytes) + 7) + f.c) % KeccakModulus
    IN  [j \in 1..32 |-> KeccakSqueeze(h, j)]

(***************************************************************************)
(* computeCreate2Address, lib/safe-config.js                               *)
(***************************************************************************)
saltPreimageOf(initializerHash, saltNonceBytes) ==
    BufferFromHex(strip0x(initializerHash)) \o saltNonceBytes

preimageOf(factory, initCodeHash, salt) ==
    <<255>> \o BufferFromHex(strip0x(factory)) \o salt
            \o BufferFromHex(strip0x(initCodeHash))

\* a plausible slip: salt and initCodeHash swapped in the outer preimage
computeCreate2Address_swapped(factory, initCodeHash, initializerHash, saltNonceBytes) ==
    LET salt == jsKeccak256(saltPreimageOf(initializerHash, saltNonceBytes))
        preimage == <<255>> \o BufferFromHex(strip0x(factory))
                            \o BufferFromHex(strip0x(initCodeHash)) \o salt
    IN  BufSlice(jsKeccak256(preimage), 12, 32)

computeCreate2Address(factory, initCodeHash, initializerHash, saltNonceBytes) ==
    LET salt == jsKeccak256(saltPreimageOf(initializerHash, saltNonceBytes))
        preimage == preimageOf(factory, initCodeHash, salt)
        hash == jsKeccak256(preimage)
    IN  BufSlice(hash, 12, 32)

(***************************************************************************)
(* computeCreate2Address, the standalone deploy script (its own copy)      *)
(***************************************************************************)
standalone_computeCreate2Address(factory, initCodeHash, initializerHash, saltNonceBytes) ==
    LET factoryBytes == BufferFromHex(strip0x(factory))
        initCodeHashBytes == BufferFromHex(strip0x(initCodeHash))
        initializerHashBytes == BufferFromHex(strip0x(initializerHash))
        saltPreimage == initializerHashBytes \o saltNonceBytes
        salt == jsKeccak256(saltPreimage)
        preimage == <<255>> \o factoryBytes \o salt \o initCodeHashBytes
        hash == jsKeccak256(preimage)
    IN  BufSlice(hash, 12, 32)

(***************************************************************************)
(* legacy verify.js: hexToBytes, safeSalt, safeAddress.  A throw is the    *)
(* record [threw |-> TRUE, ...].                                           *)
(***************************************************************************)
hexToBytes(hex) ==
    LET h == strip0x(hex)
    IN  IF Len(h) % 2 # 0 THEN Threw("Hex length must be even")
        ELSE Returned(BufferFromHex(h))

safeSalt(initializerHashBytes, saltNonceBytes) ==
    jsKeccak256(initializerHashBytes \o saltNonceBytes)

safeAddress(factoryBytes, initCodeHashBytes, saltBytes) ==
    LET preimage == <<255>> \o factoryBytes \o saltBytes \o initCodeHashBytes
    IN  IF Len(preimage) # 85 THEN Threw("Preimage must be 85 bytes")
        ELSE Returned(BufSlice(jsKeccak256(preimage), 12, 32))

\* safeSalt then safeAddress on the decoded arguments, as runFormulaMode calls them
legacy_safeSaltAddress(factory, initCodeHash, initializerHash, saltNonceBytes) ==
    LET f == hexToBytes(factory)
        c == hexToBytes(initCodeHash)
        i == hexToBytes(initializerHash)
    IN  IF f.threw THEN f
        ELSE IF c.threw THEN c
        ELSE IF i.threw THEN i
        ELSE safeAddress(f.value, c.value, safeSalt(i.value, saltNonceBytes))

(***************************************************************************)
(* SpecFormula: the three copies applied to the same arguments             *)
(***************************************************************************)
NumSeeds == 2

\* a reproducible field of n bytes
GenBytes(seed, n) == [i \in 1..n |-> (seed * 37 + i * 11 + i * i * seed) % 256]

\* how a caller may write a field: with or without 0x, lower or upper case digits
EncodeHex(buf, with0x, upper) ==
    LET digits == IF upper THEN HexUpper ELSE HexLower
    IN  (IF with0x THEN <<"0", "x">> ELSE <<>>)
        \o [i \in 1..(2 * Len(buf)) |->
               LET b == buf[(i + 1) \div 2]
               IN  IF i % 2 = 1 THEN digits[(b \div 16) + 1] ELSE digits[(b % 16) + 1]]

\* field sizes offered: the well-sized one and one byte short
FactorySizes == {20, 19}

FormulaInit ==
    \E sf \in 1..NumSeeds, sc \in 1..NumSeeds, si \in 1..NumSeeds, sn \in 1..NumSeeds,
       with0x \in BOOLEAN, upper \in BOOLEAN, flen \in FactorySizes :
        /\ fSpec = [factory |-> GenBytes(sf, flen),
                    initCodeHash |-> GenBytes(sc + 10, 32),
                    initializerHash |-> GenBytes(si + 20, 32),
                    saltNonce |-> GenBytes(sn + 30, 32)]
        /\ fArgs = [factory |-> EncodeHex(GenBytes(sf, flen), with0x, upper),
                    initCodeHash |-> EncodeHex(GenBytes(sc + 10, 32), with0x, ~upper),
                    initializerHash |-> EncodeHex(GenBytes(si + 20, 32), ~with0x, upper),
                    saltNonce |-> GenBytes(sn + 30, 32)]
        /\ fLib = NotCalled
        /\ fStandalone = NotCalled
        /\ fLegacy = NotCalled

NoFields == [factory |-> <<>>, initCodeHash |-> <<>>, initializerHash |-> <<>>,
             saltNonce |-> <<>>]

FormulaIdle ==
    /\ fSpec = NoFields /\ fArgs = NoFields
    /\ fLib = NotCalled /\ fStandalone = NotCalled /\ fLegacy = NotCalled

CallLib ==
    /\ ~fLib.called
    /\ fLib' = Returned(computeCreate2Address(fArgs.factory, fArgs.initCodeHash,
                                     fArgs.initializerHash, fArgs.saltNonce))
    /\ UNCHANGED <<fSpec, fArgs, fStandalone, fLegacy>>
    /\ UNCHANGED outsideFormula

CallStandalone ==
    /\ ~fStandalone.called
    /\ fStandalone' = Returned(standalone_computeCreate2Address(fArgs.factory, fArgs.initCodeHash,
                                     fArgs.initializerHash, fArgs.saltNonce))
    /\ UNCHANGED <<fSpec, fArgs, fLib, fLegacy>>
    /\ UNCHANGED outsideFormula

CallLegacy ==
    /\ ~fLegacy.called
    /\ fLegacy' = legacy_safeSaltAddress(fArgs.factory, fArgs.initCodeHash,
                                     fArgs.initializerHash, fArgs.saltNonce)
    /\ UNCHANGED <<fSpec, fArgs, fLib, fStandalone>>
    /\ UNCHANGED outsideFormula

FormulaNext == CallLib \/ CallStandalone \/ CallLegacy

\* the fields are well-sized: 20, 32, 32 and 32 bytes
WellSized ==
    /\ Len(fSpec.factory) = 20 /\ Len(fSpec.initCodeHash) = 32
    /\ Len(fSpec.initializerHash) = 32 /\ Len(fSpec.saltNonce) = 32

\* the address the formula defines, from the raw fields
FormulaAddress ==
    LET salt == jsKeccak256(fSpec.initializerHash \o fSpec.saltNonce)
        hash == jsKeccak256(<<255>> \o fSpec.factory \o salt \o fSpec.initCodeHash)
    IN  [k \in 1..20 |-> hash[12 + k]]

\* C1: computeCreate2Address returns bytes 12..32 of
\* Keccak256(0xff || factory || salt || initCodeHash), salt =
\* Keccak256(initializerHash || saltNonce), the inner preimage being 64 bytes
\* and the outer 85 bytes for well-sized inputs; the standalone copy returns
\* the same bytes as the lib copy for every input, and so does the legacy
\* safeSalt + safeAddress whenever it returns.
C1_Create2Formula ==
    /\ (fLib.called /\ WellSized) =>
          /\ fLib.value = FormulaAddress
          /\ Len(saltPreimageOf(fArgs.initializerHash, fArgs.saltNonce)) = 64
          /\ Len(preimageOf(fArgs.factory, fArgs.initCodeHash,
                 jsKeccak256(saltPreimageOf(fArgs.initializerHash, fArgs.saltNonce)))) = 85
    /\ (fLib.called /\ fStandalone.called) => fStandalone.value = fLib.value
    /\ (fLib.called /\ fLegacy.called /\ ~fLegacy.threw) => fLegacy.value = fLib.value
    /\ (fLegacy.called /\ WellSized) => ~fLegacy.threw

\* all three copies have returned on well-sized arguments written with 0x
C1_Witness ==
    /\ fLib.called /\ fStandalone.called /\ fLegacy.called
    /\ WellSized /\ ~fLegacy.threw
    /\ StartsWith0x(fArgs.factory)
    /\ Len(fLib.value) = 20

(***************************************************************************)
(* Strings of the scripts: numbers, addresses, the miner's output lines    *)
(***************************************************************************)
Digits == <<"0","1","2","3","4","5","6","7","8","9">>

IsDigit(c) == \E i \in 1..10 : Digits[i] = c

DigitVal(c) == (CHOOSE i \in 1..10 : Digits[i] = c) - 1

\* \s of a JavaScript regular expression (the characters that occur here)
IsSpace(c) == c \in {" ", "\t", "\n", "\r"}

\* String.prototype.toLowerCase on the characters that occur here
LowerChar(c) ==
    CASE c = "A" -> "a" [] c = "B" -> "b" [] c = "C" -> "c" [] c = "D" -> "d"
      [] c = "E" -> "e" [] c = "F" -> "f" [] c = "Y" -> "y" [] c = "S" -> "s"
      [] c = "N" -> "n" [] c = "O" -> "o" [] OTHER -> c

\* String.prototype.toUpperCase on hex digits
UpperChar(c) ==
    CASE c = "a" -> "A" [] c = "b" -> "B" [] c = "c" -> "C" [] c = "d" -> "D"
      [] c = "e" -> "E" [] c = "f" -> "F" [] OTHER -> c

toLowerCase(str) == [i \in 1..Len(str) |-> LowerChar(str[i])]

\* String.prototype.trim
trim(str) ==
    IF \A i \in 1..Len(str) : IsSpace(str[i]) THEN <<>>
    ELSE LET first == CHOOSE i \in 1..Len(str) :
                          ~IsSpace(str[i]) /\ \A j \in 1..(i - 1) : IsSpace(str[j])
             last == CHOOSE i \in 1..Len(str) :
                          ~IsSpace(str[i]) /\ \A j \in (i + 1)..Len(str) : IsSpace(str[j])
         IN  SubSeq(str, first, last)

\* the UTF-8 byte of a hex digit character (Buffer.from(hex, 'utf8'))
Utf8Byte(c) == IF IsDigit(c) THEN 48 + DigitVal(c) ELSE 97 + (HexVal(c) - 10)

\* BigInt(decStr) for a string of decimal digits; an integer of the model
RECURSIVE BigIntOfDec(_, _)
BigIntOfDec(decStr, n) ==
    IF n = 0 THEN 0
    ELSE BigIntOfDec(decStr, n - 1) * 10 + DigitVal(decStr[n])

BigInt(decStr) == BigIntOfDec(decStr, Len(decStr))

\* n.toString(16) and n.toString(10) of a BigInt n >= 0
RECURSIVE BigIntToString(_, _)
BigIntToString(n, radix) ==
    IF n < radix THEN <<HexLower[n + 1]>>
    ELSE BigIntToString(n \div radix, radix) \o <<HexLower[(n % radix) + 1]>>

\* String.prototype.padStart(width, '0')
padStart0(str, width) ==
    IF Len(str) >= width THEN str
    ELSE [i \in 1..(width - Len(str)) |-> "0"] \o str

\* BigInt(decStr) for a string of decimal digits of any length: the value as
\* base-256 digits, least significant first, one for every two characters
\* of decStr (10^n < 256^(n/2)) and one more
\* the digits are taken six at a time: acc * 10^m + chunk, byte by byte from
\* the least significant with its carry
RECURSIVE TimesPlus(_, _, _, _)
TimesPlus(acc, k, by, carry) ==
    IF k > Len(acc) THEN <<>>
    ELSE <<(acc[k] * by + carry) % 256>>
         \o TimesPlus(acc, k + 1, by, (acc[k] * by + carry) \div 256)

RECURSIVE BigIntDigits(_, _, _)
BigIntDigitsNext(next, decStr, i) ==
    IF Len(next) = (Len(decStr) + 1) \div 2 + 1 THEN BigIntDigits(next, decStr, i) ELSE <<>>

BigIntDigits(acc, decStr, i) ==
    IF i > Len(decStr) THEN acc
    ELSE LET last == IF i + 5 > Len(decStr) THEN Len(decStr)
                     ELSE i + 5
         IN  BigIntDigitsNext(
                 TimesPlus(acc, 1, 10 ^ (last - i + 1), BigInt(SubSeq(decStr, i, last))),
                 decStr, last + 1)

BigIntWide(decStr) ==
    BigIntDigits([k \in 1..((Len(decStr) + 1) \div 2 + 1) |-> 0], decStr, 1)

\* n.toString(16) of such a value: two characters per base-256 digit, most
\* significant first, without leading zeros ("0" for zero)
BigIntWideToString16(v) ==
    LET all == [i \in 1..(2 * Len(v)) |->
                   LET byte == v[Len(v) - ((i - 1) \div 2)]
                   IN  HexLower[(IF i % 2 = 1 THEN byte \div 16 ELSE byte % 16) + 1]]
        lead == IF \A i \in 1..Len(all) : all[i] = "0" THEN Len(all) - 1
                ELSE (CHOOSE i \in 1..Len(all) :
                         all[i] # "0" /\ \A j \in 1..(i - 1) : all[j] = "0") - 1
    IN  SubSeq(all, lead + 1, Len(all))

\* lib/safe-config.js saltNonceDecimalToBytes
saltNonceDecimalToBytes(decStr) ==
    LET hex == padStart0(BigIntWideToString16(BigIntWide(decStr)), 64)
    IN  BufferFromHex(hex)

\* lib/safe-config.js toChecksumAddress (EIP-55)
toChecksumAddress(addressBytes) ==
    LET hex == toLowerCase(BufToHex(addressBytes))
        hash == jsKeccak256([i \in 1..Len(hex) |-> Utf8Byte(hex[i])])
        nibble(i) == IF i % 2 = 0 THEN hash[(i \div 2) + 1] \div 16
                     ELSE hash[(i \div 2) + 1] % 16
    IN  <<"0", "x">> \o [k \in 1..40 |->
            IF nibble(k - 1) >= 8 THEN UpperChar(hex[k]) ELSE hex[k]]

(***************************************************************************)
(* run.js: the 'data' handler of the miner's stdout                        *)
(***************************************************************************)
NL == "\n"

AddressLabel == <<"A","d","d","r","e","s","s",":">>
SaltLabel == <<"S","a","l","t"," ","(","d","e","c",")",":">>

HasPrefix(line, label) ==
    Len(line) >= Len(label) /\ SubSeq(line, 1, Len(label)) = label

\* the number of characters from position from on that satisfy the class
RunLength(line, from, IsIn(_)) ==
    IF from > Len(line) \/ ~IsIn(line[from]) THEN 0
    ELSE IF \A i \in from..Len(line) : IsIn(line[i]) THEN Len(line) - from + 1
    ELSE (CHOOSE i \in from..Len(line) :
              ~IsIn(line[i]) /\ \A j \in from..(i - 1) : IsIn(line[j])) - from

\* /^Address:\s+(0x[a-fA-F0-9]{40})/.exec(line): the capture, or <<>> for null
addrMatch(line) ==
    IF ~HasPrefix(line, AddressLabel) THEN <<>>
    ELSE LET ws == RunLength(line, Len(AddressLabel) + 1, IsSpace)
             at == Len(AddressLabel) + ws + 1
         IN  IF /\ ws >= 1
                /\ Len(line) >= at + 41
                /\ line[at] = "0" /\ line[at + 1] = "x"
                /\ \A i \in (at + 2)..(at + 41) : IsHexChar(line[i])
             THEN SubSeq(line, at, at + 41)
             ELSE <<>>

\* /^Salt \(dec\):\s+(\d+)/.exec(line): the capture, or <<>> for null
saltMatch(line) ==
    IF ~HasPrefix(line, SaltLabel) THEN <<>>
    ELSE LET ws == RunLength(line, Len(SaltLabel) + 1, IsSpace)
             at == Len(SaltLabel) + ws + 1
             nd == RunLength(line, at, IsDigit)
         IN  IF ws >= 1 /\ nd >= 1 THEN SubSeq(line, at, at + nd - 1) ELSE <<>>

\* chunk.split('\n'): the pieces, each given by the position where it starts
SplitStarts(chunk) == {1} \cup {i + 1 : i \in {j \in 1..Len(chunk) : chunk[j] = NL}}

SplitPiece(chunk, start) ==
    LET ends == {j \in start..Len(chunk) : chunk[j] = NL}
        nl == IF ends = {} THEN Len(chunk) + 1
              ELSE CHOOSE j \in ends : \A k \in ends : j <= k
    IN  SubSeq(chunk, start, nl - 1)

\* the loop over the lines of one chunk: the last matching line wins
LastCapture(chunk, Match(_), before) ==
    LET hits == {st \in SplitStarts(chunk) : Match(SplitPiece(chunk, st)) # <<>>}
    IN  IF hits = {} THEN before
        ELSE Match(SplitPiece(chunk, CHOOSE st \in hits : \A o \in hits : o <= st))

(***************************************************************************)
(* The scripts.  JavaScript values of flags and config fields are the      *)
(* strings "true", "false", "null", "undefined", "" or another string.     *)
(***************************************************************************)
ExecutorRun == "executor/run.js"
SdkRun == "verify-with-safe-sdk/run.js"
SdkDeploy == "verify-with-safe-sdk/deploy.js"
StandaloneDeploy == "standalone deploy.js"

RunScripts == {ExecutorRun, SdkRun}
DeployScripts == {SdkDeploy, StandaloneDeploy}

\* if (v)
Truthy(v) == v \notin {"false", "undefined", "null", ""}

\* v != null
NotNullish(v) == v \notin {"null", "undefined"}

\* lib/safe-config.js DEFAULT_CONFIG; numbers are written as JavaScript
\* prints them.  It has no deploy and no privateKey key.
DEFAULT_CONFIG ==
    [chainId |-> "11155111",
     rpcUrl |-> "https://ethereum-sepolia-rpc.publicnode.com",
     useL2 |-> "false",
     safeVersion |-> "1.4.1",
     fallbackHandler |-> "null",
     minerPath |-> "safe_vanity",
     workers |-> "null",
     count |-> "1",
     reportInterval |-> "5",
     suffix |-> "null",
     patternType |-> "prefix",
     caseSensitive |-> "false",
     deploy |-> "undefined",
     privateKey |-> "undefined"]

\* lib/safe-config.js loadConfig: { ...defaults, ...loaded }; a key the file
\* does not define is left out of loaded or "absent" in it
loadConfig(loaded) ==
    [k \in DOMAIN DEFAULT_CONFIG |->
        IF k \notin DOMAIN loaded \/ loaded[k] = "absent"
        THEN DEFAULT_CONFIG[k] ELSE loaded[k]]

\* the characters of the numeric flag values tried
Characters ==
    [s \in {"007", "30"} |->
        IF s = "007" THEN <<"0", "0", "7">> ELSE <<"3", "0">>]

\* parseInt(str, 10): an optional sign and the leading digits; the number is
\* written as JavaScript prints it
LeadingDigits(cs) ==
    IF \A i \in 1..Len(cs) : IsDigit(cs[i]) THEN Len(cs)
    ELSE (CHOOSE i \in 1..Len(cs) :
             ~IsDigit(cs[i]) /\ \A j \in 1..(i - 1) : IsDigit(cs[j])) - 1

parseInt(str) ==
    LET cs == Characters[str]
        signed == cs # <<>> /\ cs[1] \in {"-", "+"}
        body == IF signed THEN Tail(cs) ELSE cs
        n == LeadingDigits(body)
    IN  IF n = 0 THEN "NaN"
        ELSE IF cs[1] = "-" THEN ToString(0 - BigInt(SubSeq(body, 1, n)))
        ELSE ToString(BigInt(SubSeq(body, 1, n)))

\* the fields mergeConfig of executor/run.js copies from the flags
MergedFlags ==
    {"chainId", "rpcUrl", "useL2", "safeVersion", "fallbackHandler", "minerPath",
     "workers", "count", "reportInterval", "suffix", "patternType",
     "caseSensitive", "deploy", "privateKey"}

\* a slip in mergeConfig: the deploy flag only ever switches deployment on
mergeConfig_flagOnlyEnables(fileConfig, cliv) ==
    [k \in DOMAIN fileConfig |->
        IF /\ k \in MergedFlags /\ k \in DOMAIN cliv
           /\ IF k = "deploy" THEN Truthy(cliv[k]) ELSE NotNullish(cliv[k])
        THEN IF k \in {"count", "reportInterval"} THEN parseInt(cliv[k]) ELSE cliv[k]
        ELSE fileConfig[k]]

\* a slip in mergeConfig: a flag changes only what the file left at its default
mergeConfig_fileFirst(fileConfig, cliv) ==
    [k \in DOMAIN fileConfig |->
        IF /\ k \in MergedFlags /\ k \in DOMAIN cliv /\ NotNullish(cliv[k])
           /\ (k \in {"deploy", "privateKey"} \/ fileConfig[k] = DEFAULT_CONFIG[k])
        THEN IF k \in {"count", "reportInterval"} THEN parseInt(cliv[k]) ELSE cliv[k]
        ELSE fileConfig[k]]

\* executor/run.js mergeConfig: c = { ...fileConfig }, then every flag that
\* is != null (a flag the model leaves out of cliv is one not given)
mergeConfig(fileConfig, cliv) ==
    [k \in DOMAIN fileConfig |->
        IF k \in MergedFlags /\ k \in DOMAIN cliv /\ NotNullish(cliv[k])
        THEN IF k \in {"count", "reportInterval"} THEN parseInt(cliv[k]) ELSE cliv[k]
        ELSE fileConfig[k]]

\* mergeConfig of verify-with-safe-sdk/run.js and deploy.js: no deploy field
sdk_mergeConfig(fileConfig, cliv) ==
    [fileConfig EXCEPT
        !.rpcUrl = IF NotNullish(cliv.rpcUrl) THEN cliv.rpcUrl ELSE @]

\* the standalone deploy script has no config file: its flags are its config
standalone_config(cliv) == [rpcUrl |-> cliv.rpcUrl, deploy |-> cliv.deploy]

\* readline answer -> confirmed
confirm(ans) ==
    LET a == toLowerCase(trim(ans))
    IN  a = <<"y">> \/ a = <<"y", "e", "s">>

\* the guard removed: the script goes on to deploy
DryRun_never(cliv) == FALSE

\* deploy.js: if (!cli.deploy) { ... return; }
DryRun(cliv) == ~Truthy(cliv.deploy)

\* the guard removed: a mismatch is only printed
FailsVerification_never(match) == FALSE

\* run.js: if (!match) { ...; process.exit(1); }
FailsVerification(match) == ~match

\* what fetchSafeConfig returns for the owners and threshold of the run
TheSafeConfig ==
    [factory |-> EncodeHex(GenBytes(1, 20), TRUE, FALSE),
     initCodeHash |-> EncodeHex(GenBytes(11, 32), TRUE, FALSE),
     initializerHash |-> EncodeHex(GenBytes(21, 32), TRUE, FALSE),
     singletonAddress |-> EncodeHex(GenBytes(5, 20), TRUE, FALSE)]

NoSafeConfig ==
    [factory |-> <<>>, initCodeHash |-> <<>>, initializerHash |-> <<>>,
     singletonAddress |-> <<>>]

\* the address of a decimal salt nonce under a Safe config, checksummed
formulaChecksumOf(sc, saltDec) ==
    toChecksumAddress(computeCreate2Address(sc.factory, sc.initCodeHash,
        sc.initializerHash, saltNonceDecimalToBytes(saltDec)))

(***************************************************************************)
(* The miner process as run.js sees it: the matches it prints, each as an  *)
(* "Address:" line and a "Salt (dec):" line, and how it ends.              *)
(***************************************************************************)
MaxMatches == 2

\* the salt nonce of the i-th match the miner prints
MinerSaltDec(i) == BigIntToString(907 + 11438 * (i - 1), 10)

\* the digits run.js can read as a salt: a printed salt, whole or up to a
\* chunk boundary
ReadableSalts ==
    UNION {{SubSeq(MinerSaltDec(i), 1, n) : n \in 1..Len(MinerSaltDec(i))} :
              i \in 1..MaxMatches}

\* formulaChecksumOf under the fetched Safe config, worked out once per salt
ChecksumTable ==
    LET t == [s \in ReadableSalts |-> formulaChecksumOf(TheSafeConfig, s)]
    IN  [s \in DOMAIN t |-> t[s]]

FormulaChecksum(sc, saltDec) ==
    IF sc = TheSafeConfig /\ saltDec \in ReadableSalts
    THEN ChecksumTable[saltDec]
    ELSE formulaChecksumOf(sc, saltDec)

\* lib/safe-config.js predictSafeAddress of the executor (README, "Reusable lib")
predictSafeAddress(saltNonce, sc) ==
    [address |-> FormulaChecksum(sc, saltNonce), saltNonce |-> saltNonce]

\* the addresses the miner prints for its matches: the formula's, or (a
\* faulty miner, or a miner run with other inputs) another address
MinerAddresses ==
    [i \in 1..MaxMatches |->
        LET a == computeCreate2Address(TheSafeConfig.factory,
                     TheSafeConfig.initCodeHash, TheSafeConfig.initializerHash,
                     saltNonceDecimalToBytes(MinerSaltDec(i)))
        IN  <<toChecksumAddress(a),
              toChecksumAddress([a EXCEPT ![1] = (a[1] + 1) % 256])>>]

MinerAddress(i, good) == MinerAddresses[i][IF good THEN 1 ELSE 2]

AddressLine(i, good) ==
    AddressLabel \o <<" ", " ", " ", " ", " ">> \o MinerAddress(i, good) \o <<NL>>

SaltLine(i) == SaltLabel \o <<" ">> \o MinerSaltDec(i) \o <<NL>>

RECURSIVE MinerText(_, _)
MinerText(matches, n) ==
    IF n = 0 THEN <<>>
    ELSE MinerText(matches, n - 1) \o AddressLine(n, matches[n]) \o SaltLine(n)

\* the whole text the miner wrote to stdout
MinerStdout(matches) == MinerText(matches, Len(matches))

\* where the pipe may cut the text into chunks: in each line inside the label,
\* two characters into the value, before the newline and after it
LineCuts(start, labelLen, lineLen) ==
    {start + 3, start + labelLen + 2, start + lineLen - 1, start + lineLen}

RECURSIVE ChunkEndsUpTo(_, _)
ChunkEndsUpTo(matches, n) ==
    IF n = 0 THEN {}
    ELSE LET before == Len(MinerText(matches, n - 1))
             al == Len(AddressLine(n, matches[n]))
             sl == Len(SaltLine(n))
         IN  ChunkEndsUpTo(matches, n - 1)
                 \cup LineCuts(before, Len(AddressLabel) + 5, al)
                 \cup LineCuts(before + al, Len(SaltLabel) + 1, sl)

ChunkEnds(matches) == ChunkEndsUpTo(matches, Len(matches))

MinerRuns ==
    UNION {[1..n -> BOOLEAN] : n \in 0..MaxMatches}

\* the child process: whether it started, the matches it found, what it wrote
\* to stdout, where the pipe may cut that text, and how it ended
NoChild ==
    [spawned |-> FALSE, matches |-> <<>>, stdout |-> <<>>, cuts |-> {}, exit |-> "none"]

Spawned(m) ==
    [spawned |-> TRUE, matches |-> m, stdout |-> MinerStdout(m), cuts |-> ChunkEnds(m),
     exit |-> "none"]

NotVerified ==
    [ran |-> FALSE, address |-> <<>>, saltDec |-> <<>>, predicted |-> <<>>,
     match |-> FALSE]

Answers ==
    {<<"y">>, <<"y", "e", "s">>, <<" ", "Y", "E", "S", " ">>,
     <<>>, <<"n">>, <<"y", "e", "s", "s">>}

(***************************************************************************)
(* SpecRun: main() of run.js and deploy.js, one action per stretch of code *)
(* between two awaits (or per event handler).                              *)
(***************************************************************************)
CliFlags(s) ==
    IF s = ExecutorRun THEN
        [required : BOOLEAN, deploy : {"true", "false"}, privateKey : {"null", "key"},
         rpcUrl : {"null"}, saltNonce : {<<>>}]
    ELSE IF s = SdkRun THEN
        [required : BOOLEAN, deploy : {"false"}, privateKey : {"null"},
         rpcUrl : {"null"}, saltNonce : {<<>>}]
    ELSE IF s = SdkDeploy THEN
        [required : BOOLEAN, deploy : {"true", "false"}, privateKey : {"null", "key"},
         rpcUrl : {"null", "cli-url"}, saltNonce : {MinerSaltDec(1)}]
    ELSE
        [required : BOOLEAN, deploy : {"true", "false"}, privateKey : {"null", "key"},
         rpcUrl : {"cli-url"}, saltNonce : {MinerSaltDec(1)}]

\* the config files a run may find
LoadedFiles(s) ==
    IF s = ExecutorRun THEN [rpcUrl : {"absent"}, deploy : {"absent", "true", "false"}]
    ELSE IF s = SdkRun THEN [rpcUrl : {"absent"}, deploy : {"absent"}]
    ELSE [rpcUrl : {"absent", ""}, deploy : {"absent"}]

RunInit ==
    /\ script \in RunScripts \cup DeployScripts
    /\ cli \in CliFlags(script)
    /\ envKey \in (IF script = ExecutorRun THEN BOOLEAN ELSE {FALSE})
    \* a key is given only together with --deploy, and then in one place
    /\ cli.deploy = "false" => (cli.privateKey = "null" /\ ~envKey)
    /\ ~(cli.privateKey = "key" /\ envKey)
    /\ pc = "start"
    /\ config = DEFAULT_CONFIG
    /\ safeConfig = NoSafeConfig
    /\ child = NoChild
    /\ delivered = 0
    /\ lastAddress = <<>>
    /\ lastSaltDec = <<>>
    /\ verified = NotVerified
    /\ answer = <<>>
    /\ printed = {}
    /\ exitStatus = -1
    /\ walletClient = FALSE
    /\ txs = <<>>
    /\ receipt = "none"

RunIdle ==
    /\ script = "none" /\ pc = "idle"
    /\ cli = [required |-> FALSE, deploy |-> "false", privateKey |-> "null",
              rpcUrl |-> "null", saltNonce |-> <<>>]
    /\ envKey = FALSE /\ config = DEFAULT_CONFIG /\ safeConfig = NoSafeConfig
    /\ child = NoChild /\ delivered = 0 /\ lastAddress = <<>> /\ lastSaltDec = <<>>
    /\ verified = NotVerified /\ answer = <<>> /\ printed = {} /\ exitStatus = -1
    /\ walletClient = FALSE /\ txs = <<>> /\ receipt = "none"

\* process.exit(status), or main() returning (status 0), with a last message
Exit(status, messages) ==
    /\ printed' = printed \cup messages
    /\ exitStatus' = status
    /\ pc' = "exited"

\* main(): --deploy without a key.  run.js also takes the key from the
\* environment; run.js of verify-with-safe-sdk has no --deploy
MissingDeployerKey_executorOnly ==
    /\ Truthy(cli.deploy) /\ ~Truthy(cli.privateKey)
    /\ ~envKey
    /\ script = ExecutorRun

MissingDeployerKey ==
    /\ Truthy(cli.deploy) /\ ~Truthy(cli.privateKey)
    /\ ~(script = ExecutorRun /\ envKey)
    /\ script # SdkRun

\* main() from its start to the first await (fetchSafeConfig)
MainStart ==
    /\ pc = "start"
    /\ IF ~cli.required THEN
           /\ Exit(1, {"Usage"})
           /\ UNCHANGED config
       ELSE IF MissingDeployerKey THEN
           /\ Exit(1, {"Error: --deploy requires a private key"})
           /\ UNCHANGED config
       ELSE \E loaded \in LoadedFiles(script) :
           /\ config' = IF script = ExecutorRun THEN mergeConfig(loadConfig(loaded), cli)
                        ELSE IF script = StandaloneDeploy THEN standalone_config(cli)
                        ELSE sdk_mergeConfig(loadConfig(loaded), cli)
           /\ IF script = SdkDeploy /\ ~Truthy(config'.rpcUrl)
              THEN Exit(1, {"Error: rpcUrl required"})
              ELSE /\ pc' = "fetching"
                   /\ printed' = printed
                   /\ exitStatus' = exitStatus
    /\ UNCHANGED <<script, cli, envKey, safeConfig, child, delivered, lastAddress,
                   lastSaltDec, verified, answer, walletClient, txs, receipt>>
    /\ UNCHANGED outsideRun

\* fetchSafeConfig throws (no deployment for the chain, RPC failure)
FetchFailed ==
    /\ pc = "fetching"
    /\ Exit(1, {"Error: fetchSafeConfig"})
    /\ UNCHANGED <<script, cli, envKey, config, safeConfig, child, delivered,
                   lastAddress, lastSaltDec, verified, answer, walletClient, txs, receipt>>
    /\ UNCHANGED outsideRun

\* run.js: fetchSafeConfig returns; the miner is spawned and the handlers are set
FetchDoneRun ==
    /\ pc = "fetching" /\ script \in RunScripts
    /\ safeConfig' = TheSafeConfig
    /\ \/ \E m \in MinerRuns : child' = Spawned(m)
       \/ child' = NoChild
    /\ pc' = "mining"
    /\ printed' = printed \cup {"Starting miner"}
    /\ UNCHANGED <<script, cli, envKey, config, delivered, lastAddress, lastSaltDec,
                   verified, answer, exitStatus, walletClient, txs, receipt>>
    /\ UNCHANGED outsideRun

\* deploy.js: fetchSafeConfig returns; the address is predicted and printed,
\* then either the dry run ends or writeContract is called
FetchDoneDeploy ==
    /\ pc = "fetching" /\ script \in DeployScripts
    /\ safeConfig' = TheSafeConfig
    /\ verified' = [NotVerified EXCEPT
                       !.saltDec = cli.saltNonce,
                       !.predicted = FormulaChecksum(TheSafeConfig, cli.saltNonce)]
    /\ IF DryRun(cli) THEN
           /\ Exit(0, {"Predicted address", "Dry run"})
           /\ UNCHANGED walletClient
       ELSE
           /\ printed' = printed \cup {"Predicted address", "Deploying Safe..."}
           /\ walletClient' = TRUE
           /\ pc' = "sending"
           /\ UNCHANGED exitStatus
    /\ UNCHANGED <<script, cli, envKey, config, child, delivered, lastAddress,
                   lastSaltDec, answer, txs, receipt>>
    /\ UNCHANGED outsideRun

\* proc.stdout.on('data', chunk): one chunk of the miner's output arrives
DataEvent ==
    /\ script \in RunScripts /\ child.spawned
    /\ pc \in {"mining", "predicting", "confirming", "deploying", "sending", "waiting"}
    /\ \E q \in child.cuts :
        /\ q > delivered
        /\ LET chunk == SubSeq(child.stdout, delivered + 1, q)
           IN  /\ lastAddress' = LastCapture(chunk, addrMatch, lastAddress)
               /\ lastSaltDec' = LastCapture(chunk, saltMatch, lastSaltDec)
        /\ delivered' = q
    /\ UNCHANGED <<script, pc, cli, envKey, config, safeConfig, child, verified,
                   answer, printed, exitStatus, walletClient, txs, receipt>>
    /\ UNCHANGED outsideRun

\* the verification of verify-with-safe-sdk/run.js, in the same turn as the exit
SdkVerify ==
    LET computedChecksum == FormulaChecksum(safeConfig, lastSaltDec)
        match == toLowerCase(computedChecksum) = toLowerCase(lastAddress)
    IN  /\ verified' = [ran |-> TRUE, address |-> lastAddress, saltDec |-> lastSaltDec,
                        predicted |-> computedChecksum, match |-> match]
        /\ IF FailsVerification(match)
           THEN Exit(1, {"--- Verification ---", "Formula verification failed."})
           ELSE Exit(0, {"--- Verification ---", "--- Deploy later ---"})

\* proc.on('exit', (code, signal)), and main() resumed up to its next await
ExitEvent ==
    /\ pc = "mining" /\ child.spawned
    /\ \E kind \in {"code 0", "code 1", "signal"} :
        /\ child' = [child EXCEPT !.exit = kind]
        /\ IF kind = "code 1" THEN
               /\ Exit(1, {"Error: Miner exited with code 1"})
               /\ UNCHANGED verified
           ELSE IF lastAddress # <<>> /\ lastSaltDec # <<>> THEN
               IF script = SdkRun THEN SdkVerify
               ELSE /\ verified' = [NotVerified EXCEPT !.saltDec = lastSaltDec]
                    /\ pc' = "predicting"
                    /\ UNCHANGED <<printed, exitStatus>>
           ELSE
               /\ Exit(0, {})
               /\ UNCHANGED verified
    /\ UNCHANGED <<script, cli, envKey, config, safeConfig, delivered, lastAddress,
                   lastSaltDec, answer, walletClient, txs, receipt>>
    /\ UNCHANGED outsideRun

\* proc.on('error'): the miner could not be started
ErrorEvent ==
    /\ pc = "mining" /\ ~child.spawned
    /\ child' = [child EXCEPT !.exit = "error"]
    /\ Exit(1, {"Failed to run miner"})
    /\ UNCHANGED <<script, cli, envKey, config, safeConfig, delivered, lastAddress,
                   lastSaltDec, verified, answer, walletClient, txs, receipt>>
    /\ UNCHANGED outsideRun

\* executor/run.js: predictSafeAddress returns; compare, print, go on or stop
PredictDone ==
    /\ pc = "predicting"
    /\ LET prediction == predictSafeAddress(verified.saltDec, safeConfig)
           match == toLowerCase(prediction.address) = toLowerCase(lastAddress)
       IN  /\ verified' = [ran |-> TRUE, address |-> lastAddress,
                           saltDec |-> prediction.saltNonce,
                           predicted |-> prediction.address, match |-> match]
           /\ IF FailsVerification(match) THEN
                  Exit(1, {"--- Verification ---", "Formula verification failed."})
              ELSE IF Truthy(config.deploy) THEN
                  /\ printed' = printed \cup {"--- Verification ---",
                                              "--- Deploy confirmation ---"}
                  /\ pc' = "confirming"
                  /\ UNCHANGED exitStatus
              ELSE Exit(0, {"--- Verification ---", "--- Deploy later ---"})
    /\ UNCHANGED <<script, cli, envKey, config, safeConfig, child, delivered,
                   lastAddress, lastSaltDec, answer, walletClient, txs, receipt>>
    /\ UNCHANGED outsideRun

\* executor/run.js: predictSafeAddress throws
PredictFailed ==
    /\ pc = "predicting"
    /\ Exit(1, {"Error: predictSafeAddress"})
    /\ UNCHANGED <<script, cli, envKey, config, safeConfig, child, delivered,
                   lastAddress, lastSaltDec, verified, answer, walletClient, txs, receipt>>
    /\ UNCHANGED outsideRun

\* executor/run.js: the prompt is answered
ConfirmAnswer ==
    /\ pc = "confirming"
    /\ \E a \in Answers :
        /\ answer' = a
        /\ IF ~confirm(a)
           THEN Exit(0, {"Deploy cancelled.", "To deploy later"})
           ELSE /\ printed' = printed \cup {"Deploying..."}
                /\ pc' = "deploying"
                /\ UNCHANGED exitStatus
    /\ UNCHANGED <<script, cli, envKey, config, safeConfig, child, delivered,
                   lastAddress, lastSaltDec, verified, walletClient, txs, receipt>>
    /\ UNCHANGED outsideRun

\* lib/deploy.js deploySafe: its fetchSafeConfig returns or throws
DeployFetchDone ==
    /\ pc = "deploying"
    /\ \/ /\ walletClient' = TRUE
          /\ pc' = "sending"
          /\ UNCHANGED <<printed, exitStatus>>
       \/ /\ Exit(1, {"Deploy failed"})
          /\ UNCHANGED walletClient
    /\ UNCHANGED <<script, cli, envKey, config, safeConfig, child, delivered,
                   lastAddress, lastSaltDec, verified, answer, txs, receipt>>
    /\ UNCHANGED outsideRun

\* walletClient.writeContract(createProxyWithNonce) returns the hash or throws
WriteContractDone ==
    /\ pc = "sending"
    /\ \/ /\ txs' = Append(txs, [to |-> safeConfig.factory,
                                 singleton |-> safeConfig.singletonAddress,
                                 saltNonce |-> BigInt(verified.saltDec)])
          /\ pc' = "waiting"
          /\ printed' = printed \cup (IF script \in DeployScripts
                                      THEN {"Transaction hash"} ELSE {})
          /\ UNCHANGED exitStatus
       \/ /\ Exit(1, {IF script = ExecutorRun THEN "Deploy failed" ELSE "Error"})
          /\ UNCHANGED txs
    /\ UNCHANGED <<script, cli, envKey, config, safeConfig, child, delivered,
                   lastAddress, lastSaltDec, verified, answer, walletClient, receipt>>
    /\ UNCHANGED outsideRun

\* publicClient.waitForTransactionReceipt returns the receipt or throws
ReceiptDone ==
    /\ pc = "waiting"
    /\ \/ \E status \in {"success", "reverted"} :
            /\ receipt' = status
            /\ IF script = ExecutorRun THEN
                   Exit(0, {"Transaction hash", "Confirmed in block", "Safe deployed at"})
               ELSE IF status # "success" THEN
                   Exit(1, {"Confirmed in block", "Deployment transaction failed!"})
               ELSE /\ printed' = printed \cup {"Confirmed in block"}
                    /\ pc' = "checking code"
                    /\ UNCHANGED exitStatus
       \/ /\ Exit(1, {IF script = ExecutorRun THEN "Deploy failed" ELSE "Error"})
          /\ UNCHANGED receipt
    /\ UNCHANGED <<script, cli, envKey, config, safeConfig, child, delivered,
                   lastAddress, lastSaltDec, verified, answer, walletClient, txs>>
    /\ UNCHANGED outsideRun

\* deploy.js: publicClient.getCode returns
GetCodeDone ==
    /\ pc = "checking code"
    /\ \/ Exit(0, {"Safe deployed at"})
       \/ Exit(0, {"WARNING: No code found at predicted address"})
       \/ Exit(1, {"Error"})
    /\ UNCHANGED <<script, cli, envKey, config, safeConfig, child, delivered,
                   lastAddress, lastSaltDec, verified, answer, walletClient, txs, receipt>>
    /\ UNCHANGED outsideRun

RunNext ==
    \/ MainStart \/ FetchFailed \/ FetchDoneRun \/ FetchDoneDeploy
    \/ DataEvent \/ ExitEvent \/ ErrorEvent
    \/ PredictDone \/ PredictFailed \/ ConfirmAnswer
    \/ DeployFetchDone \/ WriteContractDone \/ ReceiptDone \/ GetCodeDone

(***************************************************************************)
(* SpecKernel: one batch of the OpenCL kernel vanity_iterate_and_match.    *)
(* Work items run concurrently; each statement that touches global memory  *)
(* is one step.  What a work item computes before the match test (its      *)
(* point, hash and address) is private to it.                              *)
(***************************************************************************)
NumItems == 3       \* work items of the batch (global size)
AddrLen == 2        \* bytes of an address copied by the loop (20 in the kernel)
MaxResultsArg == 2  \* largest max_results tried

Gids == 0..(NumItems - 1)

\* the slots of memory at results[]: the buffer and what lies behind it
Slots == 0..NumItems

\* the address a work item derived for its offset
KernelAddr(offset) == [i \in 1..AddrLen |-> (offset * 29 + i * 3) % 256]

EmptyEntry == [found |-> 0, offset |-> 0, addr |-> [i \in 1..AddrLen |-> 0]]

\* the guard widened by one: the slot behind the buffer is written
InBuffer_inclusive(idx, max) == idx <= max

\* if (idx < max_results)
InBuffer(idx, max) == idx < max

KernelInit ==
    /\ max_results \in 0..MaxResultsArg
    /\ batch_offset \in {0, 1}
    /\ items \in [Gids -> [pc : {"start"}, idx : {0}, i : {0},
                           outcome : {"match", "no match", "infinity"}]]
    /\ results = [s \in Slots |-> EmptyEntry]
    /\ writers = [s \in Slots |-> {}]
    /\ result_count = 0

KernelIdle ==
    /\ max_results = 0 /\ batch_offset = 0 /\ result_count = 0
    /\ items = <<>> /\ results = <<>> /\ writers = <<>>

\* uint offset = gid + batch_offset (far below 2^32 for the batches tried)
OffsetOf(gid) == gid + batch_offset

\* the work items that reach atomic_inc
Hitting == {g \in Gids : OffsetOf(g) # 0 /\ items[g].outcome = "match"}

\* from the start of the kernel to the pattern test
Compute(g) ==
    /\ items[g].pc = "start"
    /\ items' = [items EXCEPT ![g].pc =
                    IF OffsetOf(g) = 0 THEN "done"
                    ELSE IF items[g].outcome = "infinity" THEN "done"
                    ELSE IF items[g].outcome = "match" THEN "inc"
                    ELSE "done"]
    /\ UNCHANGED <<results, writers, result_count, max_results, batch_offset>>
    /\ UNCHANGED outsideKernel

\* uint idx = atomic_inc(result_count); if (idx < max_results)
AtomicInc(g) ==
    /\ items[g].pc = "inc"
    /\ result_count' = result_count + 1
    /\ items' = [items EXCEPT ![g].idx = result_count,
                              ![g].pc = IF InBuffer(result_count, max_results)
                                        THEN "found" ELSE "done"]
    /\ UNCHANGED <<results, writers, max_results, batch_offset>>
    /\ UNCHANGED outsideKernel

\* results[idx].found = 1
WriteFound(g) ==
    /\ items[g].pc = "found"
    /\ results' = [results EXCEPT ![items[g].idx].found = 1]
    /\ writers' = [writers EXCEPT ![items[g].idx] = @ \cup {g}]
    /\ items' = [items EXCEPT ![g].pc = "offset"]
    /\ UNCHANGED <<result_count, max_results, batch_offset>>
    /\ UNCHANGED outsideKernel

\* results[idx].offset = offset
WriteOffset(g) ==
    /\ items[g].pc = "offset"
    /\ results' = [results EXCEPT ![items[g].idx].offset = OffsetOf(g)]
    /\ writers' = [writers EXCEPT ![items[g].idx] = @ \cup {g}]
    /\ items' = [items EXCEPT ![g].pc = "addr", ![g].i = 0]
    /\ UNCHANGED <<result_count, max_results, batch_offset>>
    /\ UNCHANGED outsideKernel

\* for (i...) results[idx].addr[i] = addr[i]: one byte
WriteAddr(g) ==
    /\ items[g].pc = "addr"
    /\ LET i == items[g].i
       IN  /\ results' = [results EXCEPT ![items[g].idx].addr[i + 1] =
                              KernelAddr(OffsetOf(g))[i + 1]]
           /\ items' = [items EXCEPT ![g].i = i + 1,
                                     ![g].pc = IF i + 1 < AddrLen THEN "addr" ELSE "done"]
    /\ writers' = [writers EXCEPT ![items[g].idx] = @ \cup {g}]
    /\ UNCHANGED <<result_count, max_results, batch_offset>>
    /\ UNCHANGED outsideKernel

KernelNext ==
    \E g \in Gids :
        \/ Compute(g) \/ AtomicInc(g) \/ WriteFound(g) \/ WriteOffset(g) \/ WriteAddr(g)

BatchDone == items # <<>> /\ \A g \in Gids : items[g].pc = "done"

\* C6: in a batch with H matching work items, under every interleaving, no
\* write lands at or beyond max_results, no slot is written by two work
\* items, and when the batch is done exactly min(H, max_results) entries are
\* written, each below max_results and each holding the offset and the
\* address of one single matching work item.
C6_ResultBuffer ==
    items # <<>> =>
        /\ \A s \in Slots : s >= max_results =>
               results[s] = EmptyEntry /\ writers[s] = {}
        /\ \A s \in Slots : Cardinality(writers[s]) <= 1
        /\ BatchDone =>
               LET written == {s \in Slots : writers[s] # {}}
                   H == Cardinality(Hitting)
               IN  /\ Cardinality(written) = IF H < max_results THEN H ELSE max_results
                   /\ \A s \in written :
                          /\ s < max_results
                          /\ \E g \in Hitting :
                                 /\ writers[s] = {g}
                                 /\ results[s] = [found |-> 1, offset |-> OffsetOf(g),
                                                  addr |-> KernelAddr(OffsetOf(g))]
                   /\ \A s \in Slots \ written : results[s] = EmptyEntry

C6_Witness ==
    /\ BatchDone
    /\ max_results >= 1
    /\ Cardinality(Hitting) > max_results
    /\ \A s \in 0..(max_results - 1) : results[s].found = 1

(***************************************************************************)
(* SpecPool: the miner's worker pool.  The miner is not part of the tree;  *)
(* this part follows its specification: workers that check a shared stop   *)
(* flag between outer iterations and send each hit with a blocking send on *)
(* a bounded channel; an accelerator worker whose hits the host re-derives *)
(* before sending; a consumer that polls the channel with a timeout, sets  *)
(* the stop flag at the target count and joins every worker.               *)
(***************************************************************************)
NumWorkers == 2     \* workers in the pool
MaxOffset == 2      \* candidate offsets of one outer iteration
MaxTarget == 2      \* largest target match count N
MaxCapacity == 1    \* largest channel capacity
MaxMismatches == 1  \* discarded accelerator hits counted

Workers == 1..NumWorkers

\* the address the host pipeline derives for a candidate of a worker's
\* current outer iteration (offset: its place in the iteration)
HostDerive(w, offset) == (w * 4 + offset) % 16

\* the pattern test on a derived address
PoolPatternOk(address) == address % 4 = 1

\* the host check left out: every accelerator hit is taken as it is
Reproduces_unchecked(w, hit) == TRUE

\* the host check of an accelerator hit: the address is re-derived on the
\* non-accelerated path, must equal the reported one and match the pattern
Reproduces(w, hit) ==
    /\ HostDerive(w, hit.offset) = hit.address
    /\ PoolPatternOk(HostDerive(w, hit.offset))

\* the target test taken one match early
TargetReached_early(count, n) == count + 1 >= n

\* the consumer's test after each received match
TargetReached(count, n) == count >= n

\* what an accelerator batch may report: right hits, hits with a corrupted
\* address, hits that do not match the pattern
RawHits(w) ==
    {[worker |-> w, offset |-> o, address |-> (HostDerive(w, o) + d) % 16] :
        o \in 1..MaxOffset, d \in {0, 3}}

\* what a CPU outer iteration finds
CpuHits(w) ==
    {h \in RawHits(w) :
        h.address = HostDerive(w, h.offset) /\ PoolPatternOk(h.address)}

\* the reports of one outer iteration, in candidate order: any subset of at
\* most two candidates
Reported(hits) ==
    {<<>>} \cup {<<h>> : h \in hits}
           \cup {<<hh[1], hh[2]>> : hh \in {p \in hits \X hits : p[1].offset < p[2].offset}}

\* the scan of the result buffer: the confirmed hits, in order
RECURSIVE Confirmed(_, _)
Confirmed(w, raw) ==
    IF raw = <<>> THEN <<>>
    ELSE (IF Reproduces(w, Head(raw)) THEN <<Head(raw)>> ELSE <<>>)
             \o Confirmed(w, Tail(raw))

PoolInit ==
    /\ \E k \in {"cpu", "gpu"} :
           wkind = [w \in Workers |-> IF w = 1 THEN k ELSE "cpu"]
    /\ target \in 1..MaxTarget
    /\ capacity \in 1..MaxCapacity
    /\ wpc = [w \in Workers |-> "idle"]
    /\ pending = [w \in Workers |-> <<>>]
    /\ channel = <<>>
    /\ received = <<>>
    /\ stop = FALSE
    /\ poolPc = "polling"
    /\ joined = {}
    /\ mismatches = 0
    /\ reports = FALSE

PoolIdle ==
    /\ wkind = <<>> /\ target = 0 /\ capacity = 0 /\ wpc = <<>>
    /\ pending = <<>> /\ channel = <<>> /\ received = <<>> /\ stop = FALSE
    /\ poolPc = "idle" /\ joined = {} /\ mismatches = 0 /\ reports = FALSE

\* between outer iterations: the stop flag is read; the worker ends or
\* starts its next iteration
WorkerCheckStop(w) ==
    /\ wpc[w] = "idle"
    /\ wpc' = [wpc EXCEPT ![w] = IF stop THEN "terminated" ELSE "scanning"]
    /\ UNCHANGED <<wkind, pending, channel, received, stop, poolPc, joined, target,
                   capacity, mismatches, reports>>
    /\ UNCHANGED outsidePool

\* a CPU worker's outer iteration: the sequential scan and its hits
CpuScan(w) ==
    /\ wpc[w] = "scanning" /\ wkind[w] = "cpu"
    /\ \E hits \in Reported(CpuHits(w)) :
        /\ pending' = [pending EXCEPT ![w] = hits]
        /\ wpc' = [wpc EXCEPT ![w] = IF hits = <<>> THEN "idle" ELSE "sending"]
    /\ UNCHANGED <<wkind, channel, received, stop, poolPc, joined, target,
                   capacity, mismatches, reports>>
    /\ UNCHANGED outsidePool

\* an accelerator worker's round trip: the batch completes, the result buffer
\* is scanned and every reported hit is checked on the host
GpuBatch(w) ==
    /\ wpc[w] = "scanning" /\ wkind[w] = "gpu"
    /\ \E raw \in Reported(RawHits(w)) :
        LET ok == Confirmed(w, raw)
        IN  /\ pending' = [pending EXCEPT ![w] = ok]
            /\ mismatches' = mismatches + (Len(raw) - Len(ok))
            /\ mismatches' <= MaxMismatches
            /\ wpc' = [wpc EXCEPT ![w] = IF ok = <<>> THEN "idle" ELSE "sending"]
    /\ UNCHANGED <<wkind, channel, received, stop, poolPc, joined, target,
                   capacity, reports>>
    /\ UNCHANGED outsidePool

\* the blocking send of one result: it goes through when the channel has room
WorkerSend(w) ==
    /\ wpc[w] = "sending"
    /\ Len(channel) < capacity
    /\ channel' = Append(channel, Head(pending[w]))
    /\ pending' = [pending EXCEPT ![w] = Tail(@)]
    /\ wpc' = [wpc EXCEPT ![w] = IF Tail(pending[w]) = <<>> THEN "idle" ELSE "sending"]
    /\ UNCHANGED <<wkind, received, stop, poolPc, joined, target, capacity,
                   mismatches, reports>>
    /\ UNCHANGED outsidePool

\* the consumer takes a result; at the target count it stops the workers
PoolReceive ==
    /\ poolPc = "polling"
    /\ channel # <<>>
    /\ received' = Append(received, Head(channel))
    /\ channel' = Tail(channel)
    /\ IF TargetReached(Len(received'), target)
       THEN stop' = TRUE /\ poolPc' = "joining"
       ELSE UNCHANGED <<stop, poolPc>>
    /\ UNCHANGED <<wpc, wkind, pending, joined, target, capacity, mismatches,
                   reports>>
    /\ UNCHANGED outsidePool

\* the poll times out on an empty channel: a throughput report
PoolTimeout ==
    /\ poolPc = "polling"
    /\ channel = <<>>
    /\ reports' = TRUE
    /\ UNCHANGED <<wpc, wkind, pending, channel, received, stop, poolPc,
                   joined, target, capacity, mismatches>>
    /\ UNCHANGED outsidePool

\* the workers are joined one after the other
PoolJoin ==
    /\ poolPc = "joining"
    /\ joined # Workers
    /\ LET w == CHOOSE v \in Workers \ joined : \A u \in Workers \ joined : v <= u
       IN  /\ wpc[w] = "terminated"
           /\ joined' = joined \cup {w}
    /\ UNCHANGED <<wpc, wkind, pending, channel, received, stop, poolPc,
                   target, capacity, mismatches, reports>>
    /\ UNCHANGED outsidePool

PoolReturn ==
    /\ poolPc = "joining"
    /\ joined = Workers
    /\ poolPc' = "returned"
    /\ UNCHANGED <<wpc, wkind, pending, channel, received, stop, joined,
                   target, capacity, mismatches, reports>>
    /\ UNCHANGED outsidePool

PoolNext ==
    \/ \E w \in Workers : WorkerCheckStop(w) \/ CpuScan(w) \/ GpuBatch(w) \/ WorkerSend(w)
    \/ PoolReceive \/ PoolTimeout \/ PoolJoin \/ PoolReturn

\* every result a worker holds for sending, the channel holds or the
\* consumer has taken
Surfaced ==
    UNION {{pending[w][k] : k \in 1..Len(pending[w])} : w \in Workers}
        \cup {channel[k] : k \in 1..Len(channel)}
        \cup {received[k] : k \in 1..Len(received)}

\* C7: every hit reported by the accelerator is re-derived on the host
\* before it is put on the result channel; one that does not reproduce or
\* does not match the pattern is discarded and never delivered, so every
\* delivered result is one whose address the host derivation confirms.
C7_HostConfirms ==
    poolPc # "idle" =>
        \A r \in Surfaced :
            /\ r.address = HostDerive(r.worker, r.offset)
            /\ PoolPatternOk(r.address)

C7_Witness ==
    /\ mismatches >= 1
    /\ \E k \in 1..Len(received) : wkind[received[k].worker] = "gpu"

C9_StopsAtTarget ==
    poolPc # "idle" =>
        /\ stop <=> Len(received) >= target
        /\ stop <=> poolPc \in {"joining", "returned"}
        /\ (\E w \in Workers : wpc[w] = "terminated") => stop
        /\ joined \subseteq {w \in Workers : wpc[w] = "terminated"}
        /\ poolPc = "returned" => joined = Workers

C9_Witness ==
    /\ poolPc = "returned"
    /\ target = 2
    /\ Len(received) = 2
    /\ joined = Workers

(***************************************************************************)
(* SpecMatch: the pattern matcher of the OpenCL kernel.                    *)
(***************************************************************************)
\* get_nibble with the two halves of the byte taken the other way round
get_nibble_swapped(addr, idx) ==
    LET byte == addr[(idx \div 2) + 1]
    IN  IF idx % 2 = 1 THEN byte \div 16 ELSE byte % 16

\* get_nibble: byte = addr[idx >> 1]; (idx & 1) ? (byte & 0x0f) : (byte >> 4)
get_nibble(addr, idx) ==
    LET byte == addr[(idx \div 2) + 1]
    IN  IF idx % 2 = 1 THEN byte % 16 ELSE byte \div 16

\* match_pattern_at: the loop from i on, returning false at the first difference
RECURSIVE match_pattern_from(_, _, _, _, _)
match_pattern_from(addr, nibbles, len, start, i) ==
    IF i >= len THEN TRUE
    ELSE IF get_nibble(addr, start + i) # nibbles[i + 1] THEN FALSE
    ELSE match_pattern_from(addr, nibbles, len, start, i + 1)

match_pattern_at(addr, nibbles, len, start) ==
    match_pattern_from(addr, nibbles, len, start, 0)

\* the nibbles match_pattern_at passes to get_nibble: the loop reads
\* start + i until the first difference
match_pattern_reads(addr, nibbles, len, start) ==
    {start + i : i \in {j \in 0..(len - 1) :
        \A k \in 0..(j - 1) : get_nibble(addr, start + k) = nibbles[k + 1]}}

\* pattern_matches with the suffix window one nibble early
pattern_matches_suffixEarly(addr, cfg) ==
    LET ptype == cfg.pattern_type
        plen == cfg.pattern_len
        slen == cfg.suffix_len
        pnib == cfg.pattern_nibbles
        snib == cfg.suffix_nibbles
    IN  IF ptype = 0 THEN match_pattern_at(addr, pnib, plen, 0)
        ELSE IF ptype = 1 THEN match_pattern_at(addr, snib, slen, 39 - slen)
        ELSE IF ptype = 2 THEN
            \E start \in 0..(40 - plen) : match_pattern_at(addr, pnib, plen, start)
        ELSE IF ptype = 3 THEN
            /\ match_pattern_at(addr, pnib, plen, 0)
            /\ match_pattern_at(addr, snib, slen, 40 - slen)
        ELSE FALSE

\* pattern_matches with the contains loop stopping before its limit
pattern_matches_limitExclusive(addr, cfg) ==
    LET ptype == cfg.pattern_type
        plen == cfg.pattern_len
        slen == cfg.suffix_len
        pnib == cfg.pattern_nibbles
        snib == cfg.suffix_nibbles
    IN  IF ptype = 0 THEN match_pattern_at(addr, pnib, plen, 0)
        ELSE IF ptype = 1 THEN match_pattern_at(addr, snib, slen, 40 - slen)
        ELSE IF ptype = 2 THEN
            \E start \in 0..(39 - plen) : match_pattern_at(addr, pnib, plen, start)
        ELSE IF ptype = 3 THEN
            /\ match_pattern_at(addr, pnib, plen, 0)
            /\ match_pattern_at(addr, snib, slen, 40 - slen)
        ELSE FALSE

\* pattern_matches with type 3 accepting either half
pattern_matches_either(addr, cfg) ==
    LET ptype == cfg.pattern_type
        plen == cfg.pattern_len
        slen == cfg.suffix_len
        pnib == cfg.pattern_nibbles
        snib == cfg.suffix_nibbles
    IN  IF ptype = 0 THEN match_pattern_at(addr, pnib, plen, 0)
        ELSE IF ptype = 1 THEN match_pattern_at(addr, snib, slen, 40 - slen)
        ELSE IF ptype = 2 THEN
            \E start \in 0..(40 - plen) : match_pattern_at(addr, pnib, plen, start)
        ELSE IF ptype = 3 THEN
            \/ match_pattern_at(addr, pnib, plen, 0)
            \/ match_pattern_at(addr, snib, slen, 40 - slen)
        ELSE FALSE

\* pattern_matches: 0 prefix, 1 suffix, 2 contains, 3 prefix and suffix
pattern_matches(addr, cfg) ==
    LET ptype == cfg.pattern_type
        plen == cfg.pattern_len
        slen == cfg.suffix_len
        pnib == cfg.pattern_nibbles
        snib == cfg.suffix_nibbles
    IN  IF ptype = 0 THEN match_pattern_at(addr, pnib, plen, 0)
        ELSE IF ptype = 1 THEN match_pattern_at(addr, snib, slen, 40 - slen)
        ELSE IF ptype = 2 THEN
            \E start \in 0..(40 - plen) : match_pattern_at(addr, pnib, plen, start)
        ELSE IF ptype = 3 THEN
            /\ match_pattern_at(addr, pnib, plen, 0)
            /\ match_pattern_at(addr, snib, slen, 40 - slen)
        ELSE FALSE

\* the nibble indexes pattern_matches reads from addr, following its loops
pattern_reads(addr, cfg) ==
    LET ptype == cfg.pattern_type
        plen == cfg.pattern_len
        slen == cfg.suffix_len
        pnib == cfg.pattern_nibbles
        snib == cfg.suffix_nibbles
    IN  IF ptype = 0 THEN match_pattern_reads(addr, pnib, plen, 0)
        ELSE IF ptype = 1 THEN match_pattern_reads(addr, snib, slen, 40 - slen)
        ELSE IF ptype = 2 THEN
            UNION {match_pattern_reads(addr, pnib, plen, start) :
                start \in {t \in 0..(40 - plen) :
                    \A u \in 0..(t - 1) : ~match_pattern_at(addr, pnib, plen, u)}}
        ELSE IF ptype = 3 THEN
            match_pattern_reads(addr, pnib, plen, 0)
                \cup match_pattern_reads(addr, snib, slen, 40 - slen)
        ELSE {}

NumAddrs == 2       \* addresses tried

\* the 40 hex digits of an address, high half of byte 0 first
AddrNibbles(addr) ==
    [k \in 1..40 |-> IF k % 2 = 1 THEN addr[(k + 1) \div 2] \div 16
                     ELSE addr[k \div 2] % 16]

\* patterns to try against an address: a stretch of its own digits, as it
\* is or with one digit changed
PatternsOf(addr, from, len) ==
    LET own == SubSeq(AddrNibbles(addr), from + 1, from + len)
    IN  {own} \cup {[own EXCEPT ![k] = (@ + 1) % 16] : k \in {1, len} \cap 1..len}

\* where the pattern of a contains search is taken from: the first, a middle
\* and the last valid start
ContainsStarts(len) == {0, (40 - len) \div 2, 40 - len}

AllPatterns(addr, len) ==
    UNION {PatternsOf(addr, from, len) : from \in ContainsStarts(len)}

\* lengths of the two halves of a prefix-and-suffix pattern: empty, short,
\* touching (20 + 20) and overlapping (25 + 20, 40 + 40)
BothLens == {0, 1, 20, 25, 40}

BothPatterns(addr) ==
    UNION {PatternsOf(addr, 0, plen) \X PatternsOf(addr, 40 - slen, slen) :
        <<plen, slen>> \in BothLens \X BothLens}

MatchConfigs(addr) ==
    UNION {
        {[pattern_type |-> 0, pattern_len |-> len, suffix_len |-> 0,
          pattern_nibbles |-> p, suffix_nibbles |-> <<>>] :
            p \in PatternsOf(addr, 0, len)}
        \cup
        {[pattern_type |-> 1, pattern_len |-> 0, suffix_len |-> len,
          pattern_nibbles |-> <<>>, suffix_nibbles |-> q] :
            q \in PatternsOf(addr, 40 - len, len)}
        \cup
        {[pattern_type |-> 2, pattern_len |-> len, suffix_len |-> 0,
          pattern_nibbles |-> c[2], suffix_nibbles |-> <<>>] :
            c \in {d \in ContainsStarts(len) \X AllPatterns(addr, len) :
                      d[2] \in PatternsOf(addr, d[1], len)}}
      : len \in 0..40}
    \cup
    {[pattern_type |-> 3, pattern_len |-> Len(b[1]), suffix_len |-> Len(b[2]),
      pattern_nibbles |-> b[1], suffix_nibbles |-> b[2]] :
        b \in BothPatterns(addr)}

MatchInit ==
    /\ \E seed \in 1..NumAddrs : mAddr = GenBytes(seed, 20)
    /\ mCfg \in MatchConfigs(mAddr)
    /\ mResult = NotCalled

MatchIdle ==
    /\ mAddr = <<>>
    /\ mCfg = [pattern_type |-> 0, pattern_len |-> 0, suffix_len |-> 0,
               pattern_nibbles |-> <<>>, suffix_nibbles |-> <<>>]
    /\ mResult = NotCalled

CallPatternMatches ==
    /\ mAddr # <<>>
    /\ ~mResult.called
    /\ mResult' = Returned(pattern_matches(mAddr, mCfg))
    /\ UNCHANGED <<mAddr, mCfg>>
    /\ UNCHANGED outsideMatch

MatchNext == CallPatternMatches

\* C10: for a 20-byte address A and a prefix pattern P of length len <= 40,
\* pattern_matches with type Prefix is true exactly when the first len hex
\* digits of A equal P, digit 2k being the high 4 bits of byte k and digit
\* 2k+1 its low 4 bits.
C10_PrefixMatch ==
    (mResult.called /\ mCfg.pattern_type = 0) =>
        (mResult.value <=>
            SubSeq(AddrNibbles(mAddr), 1, mCfg.pattern_len) = mCfg.pattern_nibbles)

C10_Witness ==
    /\ mResult.called
    /\ mCfg.pattern_type = 0
    /\ mCfg.pattern_len = 40
    /\ mResult.value = TRUE

\* C11: for a 20-byte address A and a suffix pattern of length L <= 40,
\* pattern_matches with type Suffix is true exactly when the last L hex
\* digits of A (digits 40-L .. 39) equal the suffix digits.
C11_SuffixMatch ==
    (mResult.called /\ mCfg.pattern_type = 1 /\ mCfg.suffix_len <= 40) =>
        (mResult.value <=>
            SubSeq(AddrNibbles(mAddr), 40 - mCfg.suffix_len + 1, 40)
                = mCfg.suffix_nibbles)

C11_Witness ==
    /\ mResult.called
    /\ mCfg.pattern_type = 1
    /\ mCfg.suffix_len = 3
    /\ mResult.value = TRUE

\* C12: for a 20-byte address A and a pattern of length len <= 40,
\* pattern_matches with type Contains is true exactly when some start s in
\* 0..40-len has digits s..s+len-1 of A equal to the pattern; the start
\* s = 40-len is among those tried, and no digit index >= 40 is read.
C12_ContainsMatch ==
    (mResult.called /\ mCfg.pattern_type = 2 /\ mCfg.pattern_len <= 40) =>
        /\ mResult.value <=>
            \E s \in 0..(40 - mCfg.pattern_len) :
                SubSeq(AddrNibbles(mAddr), s + 1, s + mCfg.pattern_len)
                    = mCfg.pattern_nibbles
        /\ pattern_reads(mAddr, mCfg) \subseteq 0..39

\* the pattern is found at the last valid start only
C12_Witness ==
    /\ mResult.called
    /\ mCfg.pattern_type = 2
    /\ mCfg.pattern_len \in 1..39
    /\ mResult.value = TRUE
    /\ \A s \in 0..(39 - mCfg.pattern_len) :
            SubSeq(AddrNibbles(mAddr), s + 1, s + mCfg.pattern_len)
                # mCfg.pattern_nibbles
    /\ 39 \in pattern_reads(mAddr, mCfg)

\* C13: with type PrefixAndSuffix, pattern_matches is true exactly when the
\* prefix check on digits 0..plen-1 and the suffix check on digits
\* 40-slen..39 both hold, each on its own, also when the two windows overlap
\* (plen + slen > 40).
C13_PrefixAndSuffix ==
    (mResult.called /\ mCfg.pattern_type = 3
        /\ mCfg.pattern_len <= 40 /\ mCfg.suffix_len <= 40) =>
        (mResult.value <=>
            /\ SubSeq(AddrNibbles(mAddr), 1, mCfg.pattern_len)
                    = mCfg.pattern_nibbles
            /\ SubSeq(AddrNibbles(mAddr), 40 - mCfg.suffix_len + 1, 40)
                    = mCfg.suffix_nibbles)

\* overlapping windows, both matching
C13_Witness ==
    /\ mResult.called
    /\ mCfg.pattern_type = 3
    /\ mCfg.pattern_len + mCfg.suffix_len > 40
    /\ mCfg.pattern_len < 40
    /\ mResult.value = TRUE
(***************************************************************************)
(* 256-bit arithmetic of the OpenCL kernels.  A uint is written as its 4   *)
(* bytes, a ulong as its 8 bytes and a uint256_t as its 32 bytes, least    *)
(* significant byte first, so that limb d[i] is bytes 4i+1 .. 4i+4; every  *)
(* ulong expression is computed modulo 2^64 as the kernel computes it.     *)
(* Tests of the form Len(v) = n only fix the order of evaluation.          *)
(***************************************************************************)
\* the bytes of a sum of columns, carries moving up; what leaves the top
\* column is dropped
RECURSIVE Carry(_, _, _)
Carry(cols, i, c) ==
    IF i > Len(cols) THEN <<>>
    ELSE <<(cols[i] + c) % 256>> \o Carry(cols, i + 1, (cols[i] + c) \div 256)

ByteAt(v, k) == IF k >= 1 /\ k <= Len(v) THEN v[k] ELSE 0

Zero4 == <<0, 0, 0, 0>>
Zero8 == <<0, 0, 0, 0, 0, 0, 0, 0>>
Lo32(t) == SubSeq(t, 1, 4)                          \* (uint)t, t & 0xFFFFFFFF
Hi32(t) == SubSeq(t, 5, 8)                          \* t >> 32
ToUlong(u) == u \o Zero4                            \* (ulong)u
Limb(a, i) == SubSeq(a, 4 * i + 1, 4 * i + 4)       \* a->d[i]

\* a + b * c + d on ulongs
MulAdd64(a, b, c, d) ==
    Carry([k \in 1..8 |->
        ByteAt(a, k) + ByteAt(d, k)
        + ByteAt(b, 1) * ByteAt(c, k)     + ByteAt(b, 2) * ByteAt(c, k - 1)
        + ByteAt(b, 3) * ByteAt(c, k - 2) + ByteAt(b, 4) * ByteAt(c, k - 3)
        + ByteAt(b, 5) * ByteAt(c, k - 4) + ByteAt(b, 6) * ByteAt(c, k - 5)
        + ByteAt(b, 7) * ByteAt(c, k - 6) + ByteAt(b, 8) * ByteAt(c, k - 7)], 1, 0)

\* p + (ulong)u * (ulong)v + carry for uints u, v and ulongs p, carry
MulAdd32(p, u, v, carry) ==
    Carry(<<p[1] + carry[1] + u[1] * v[1],
            p[2] + carry[2] + u[1] * v[2] + u[2] * v[1],
            p[3] + carry[3] + u[1] * v[3] + u[2] * v[2] + u[3] * v[1],
            p[4] + carry[4] + u[1] * v[4] + u[2] * v[3] + u[3] * v[2] + u[4] * v[1],
            p[5] + carry[5] + u[2] * v[4] + u[3] * v[3] + u[4] * v[2],
            p[6] + carry[6] + u[3] * v[4] + u[4] * v[3],
            p[7] + carry[7] + u[4] * v[4],
            p[8] + carry[8]>>, 1, 0)

\* secp256k1 field prime p: limbs 0xFFFFFC2F, 0xFFFFFFFE, 0xFFFFFFFF x 6
SECP256K1_P ==
    <<47, 252, 255, 255,  254, 255, 255, 255>> \o [k \in 1..24 |-> 255]

\* uint256_t {{n,0,0,0,0,0,0,0}} for n < 256
Small(n) == <<n>> \o [k \in 1..31 |-> 0]
ONE == Small(1)
uint256_eq(a, b) == a = b

\* uint256_gte: from limb 7 down, the first differing limb decides (on the
\* bytes of the limbs: from byte 32 down)
RECURSIVE uint256_gte_from(_, _, _)
uint256_gte_from(a, b, k) ==
    IF k < 1 THEN TRUE
    ELSE IF a[k] > b[k] THEN TRUE
    ELSE IF a[k] < b[k] THEN FALSE
    ELSE uint256_gte_from(a, b, k - 1)

uint256_gte(a, b) == uint256_gte_from(a, b, 32)

\* uint256_add: the limbs' sums with the carry passed from limb to limb (on
\* bytes: the same carries); r and the carry out of limb 7
SplitCarry(s) == [r |-> SubSeq(s, 1, 32), carry |-> s[33]]

uint256_add(a, b) ==
    SplitCarry(Carry([k \in 1..33 |-> ByteAt(a, k) + ByteAt(b, k)], 1, 0))

\* uint256_sub: the limbs' differences with the borrow (bit 63 of the ulong
\* difference) passed from limb to limb
RECURSIVE Borrow(_, _, _, _)
BorrowJoin(v, rest) == [r |-> <<v % 256>> \o rest.r, borrow |-> rest.borrow]

Borrow(a, b, k, bw) ==
    IF k > 32 THEN [r |-> <<>>, borrow |-> bw]
    ELSE BorrowJoin(a[k] - b[k] - bw,
                    Borrow(a, b, k + 1, IF a[k] - b[k] - bw < 0 THEN 1 ELSE 0))

uint256_sub(a, b) == Borrow(a, b, 1, 0)

\* fp_add: r = a + b; if (carry || r >= p) r -= p
fp_add_reduce(s) ==
    IF s.carry # 0 \/ uint256_gte(s.r, SECP256K1_P)
    THEN uint256_sub(s.r, SECP256K1_P).r ELSE s.r

fp_add(a, b) == fp_add_reduce(uint256_add(a, b))

\* fp_sub: r = a - b; if (borrow) r += p
fp_sub_reduce(d) ==
    IF d.borrow # 0 THEN uint256_add(d.r, SECP256K1_P).r ELSE d.r

fp_sub(a, b) == fp_sub_reduce(uint256_sub(a, b))

\* fp_mul, schoolbook multiply.  MulRow is the loop over j of row i with
\* t = prod[i + j] + a->d[i] * b->d[j] + carry, MulRows the loop over i
RECURSIVE MulRow(_, _, _, _, _, _)
MulRowNext(next, a, b, i, j, c) ==
    IF Len(next) = 16 /\ Len(c) = 8 THEN MulRow(next, a, b, i, j, c) ELSE <<>>

MulRowStore(prod, a, b, i, j, t) ==
    MulRowNext([prod EXCEPT ![i + j + 1] = ToUlong(Lo32(t))], a, b, i, j + 1,
               ToUlong(Hi32(t)))

MulRow(prod, a, b, i, j, carry) ==
    IF j = 8 THEN [prod EXCEPT ![i + 8 + 1] = MulAdd64(@, <<>>, <<>>, carry)]
    ELSE MulRowStore(prod, a, b, i, j,
                     MulAdd32(prod[i + j + 1], Limb(a, i), Limb(b, j), carry))

RECURSIVE MulRows(_, _, _, _)
MulRowsNext(next, a, b, i) ==
    IF Len(next) = 16 THEN MulRows(next, a, b, i) ELSE <<>>

MulRows(prod, a, b, i) ==
    IF i = 8 THEN prod
    ELSE MulRowsNext(MulRow(prod, a, b, i, 0, Zero8), a, b, i + 1)

c_lo == <<209, 3, 0, 0, 1, 0, 0, 0>>        \* 0x1000003D1UL

\* fp_mul, first reduction: t = prod[i] + prod[i+8] * c_lo + carry; gives
\* prod and the carry left
RECURSIVE Reduce1(_, _, _)
Reduce1Next(next, i, c) ==
    IF Len(next) = 16 /\ Len(c) = 8 THEN Reduce1(next, i, c) ELSE <<>>

Reduce1Store(prod, i, t) ==
    Reduce1Next([prod EXCEPT ![i + 1] = ToUlong(Lo32(t))], i + 1, ToUlong(Hi32(t)))

Reduce1(prod, i, carry) ==
    IF i = 8 THEN [prod |-> prod, carry |-> carry]
    ELSE Reduce1Store(prod, i, MulAdd64(prod[i + 1], prod[i + 9], c_lo, carry))

\* fp_mul, second reduction: t = prod[i] + (extra & 0xFFFFFFFF) + carry,
\* extra >>= 32; it stops once i >= 1 and nothing is left to add, and a
\* carry out of limb 7 is not used
RECURSIVE Reduce2(_, _, _, _)
Reduce2Next(next, i, extra, carry) ==
    IF i >= 1 /\ extra = Zero8 /\ carry = Zero8 THEN next
    ELSE IF Len(next) = 16 THEN Reduce2(next, i + 1, extra, carry)
    ELSE <<>>

Reduce2Store(prod, i, extra, t) ==
    Reduce2Next([prod EXCEPT ![i + 1] = ToUlong(Lo32(t))], i, ToUlong(Hi32(extra)),
                ToUlong(Hi32(t)))

Reduce2(prod, i, extra, carry) ==
    IF i = 8 THEN prod
    ELSE Reduce2Store(prod, i, extra,
             MulAdd64(prod[i + 1], <<>>, <<>>,
                      MulAdd64(ToUlong(Lo32(extra)), <<>>, <<>>, carry)))

\* extra = carry * c_lo, then the second reduction
Reduce(red1) ==
    Reduce2(red1.prod, 0, MulAdd64(Zero8, red1.carry, c_lo, Zero8), Zero8)

\* r->d[j] = (uint)prod[j]
LowLimbs(prod) ==
    Lo32(prod[1]) \o Lo32(prod[2]) \o Lo32(prod[3]) \o Lo32(prod[4])
    \o Lo32(prod[5]) \o Lo32(prod[6]) \o Lo32(prod[7]) \o Lo32(prod[8])

\* if (uint256_gte(r, &p)) uint256_sub(r, r, &p)
SubtractOnce(r) ==
    IF uint256_gte(r, SECP256K1_P) THEN uint256_sub(r, SECP256K1_P).r ELSE r

fp_mul(a, b) ==
    IF Len(a) # 32 \/ Len(b) # 32 THEN <<>>
    ELSE SubtractOnce(LowLimbs(Reduce(
             Reduce1(MulRows([k \in 1..16 |-> Zero8], a, b, 0), 0, Zero8))))

fp_sqr(a) == fp_mul(a, a)

(***************************************************************************)
(* Points of secp256k1 as the kernels hold them, and the buffers the host  *)
(* passes in.  The host side is not part of the tree: the table of powers  *)
(* 2^k G and the base public key are given here by their values, as        *)
(* uncompressed keys (32 bytes x, 32 bytes y, big-endian).                 *)
(***************************************************************************)
\* n G for n = 1..4
Multiples == <<
    \* 1 G: x = 79be667ef9dcbbac55a06295ce870b07
    \*          029bfcdb2dce28d959f2815b16f81798
    \*      y = 483ada7726a3c4655da4fbfc0e1108a8
    \*          fd17b448a68554199c47d08ffb10d4b8
    << 121, 190, 102, 126, 249, 220, 187, 172,  85, 160,  98, 149, 206, 135,  11,   7,
         2, 155, 252, 219,  45, 206,  40, 217,  89, 242, 129,  91,  22, 248,  23, 152,
        72,  58, 218, 119,  38, 163, 196, 101,  93, 164, 251, 252,  14,  17,   8, 168,
       253,  23, 180,  72, 166, 133,  84,  25, 156,  71, 208, 143, 251,  16, 212, 184 >>,
    \* 2 G: x = c6047f9441ed7d6d3045406e95c07cd8
    \*          5c778e4b8cef3ca7abac09b95c709ee5
    \*      y = 1ae168fea63dc339a3c58419466ceaee
    \*          f7f632653266d0e1236431a950cfe52a
    << 198,   4, 127, 148,  65, 237, 125, 109,  48,  69,  64, 110, 149, 192, 124, 216,
        92, 119, 142,  75, 140, 239,  60, 167, 171, 172,   9, 185,  92, 112, 158, 229,
        26, 225, 104, 254, 166,  61, 195,  57, 163, 197, 132,  25,  70, 108, 234, 238,
       247, 246,  50, 101,  50, 102, 208, 225,  35, 100,  49, 169,  80, 207, 229,  42 >>,
    \* 3 G: x = f9308a019258c31049344f85f89d5229
    \*          b531c845836f99b08601f113bce036f9
    \*      y = 388f7b0f632de8140fe337e62a37f356
    \*          6500a99934c2231b6cb9fd7584b8e672
    << 249,  48, 138,   1, 146,  88, 195,  16,  73,  52,  79, 133, 248, 157,  82,  41,
       181,  49, 200,  69, 131, 111, 153, 176, 134,   1, 241,  19, 188, 224,  54, 249,
        56, 143, 123,  15,  99,  45, 232,  20,  15, 227,  55, 230,  42,  55, 243,  86,
       101,   0, 169, 153,  52, 194,  35,  27, 108, 185, 253, 117, 132, 184, 230, 114 >>,
    \* 4 G: x = e493dbf1c10d80f3581e4904930b1404
    \*          cc6c13900ee0758474fa94abe8c4cd13
    \*      y = 51ed993ea0d455b75642e2098ea51448
    \*          d967ae33bfbdfe40cfe97bdc47739922
    << 228, 147, 219, 241, 193,  13, 128, 243,  88,  30,  73,   4, 147,  11,  20,   4,
       204, 108,  19, 144,  14, 224, 117, 132, 116, 250, 148, 171, 232, 196, 205,  19,
        81, 237, 153,  62, 160, 212,  85, 183,  86,  66, 226,   9, 142, 165,  20,  72,
       217, 103, 174,  51, 191, 189, 254,  64, 207, 233, 123, 220,  71, 115, 153,  34 >>
>>

\* g_table: entry k is 2^k G (entries 0..2 of the 32)
g_table == Multiples[1] \o Multiples[2] \o Multiples[4]

\* load_uint256_be: d[i] = buf[off] << 24 | buf[off+1] << 16 | buf[off+2] << 8
\* | buf[off+3] with off = (7 - i) * 4
load_uint256_be(buf, at) ==
    [k \in 1..32 |->
        LET i == (k - 1) \div 4
            m == (k - 1) % 4          \* byte m of limb i: bits 8m .. 8m+7
        IN  buf[at + (7 - i) * 4 + (3 - m) + 1]]

\* a coordinate that was never assigned
Unset == <<>>

\* ec_point_t
Affine(x, y) == [x |-> x, y |-> y, infinity |-> FALSE]
AffineInfinity == [x |-> Unset, y |-> Unset, infinity |-> TRUE]

\* jac_point_t
Jacobian(X, Y, Z) == [X |-> X, Y |-> Y, Z |-> Z, infinity |-> FALSE]

load_g_table_entry(table, index) ==
    Affine(load_uint256_be(table, index * 64), load_uint256_be(table, index * 64 + 32))

\* ec_double up to the call of fp_inv: the point returned at once, or the
\* value to invert
ec_double_begin(p) ==
    IF p.infinity THEN [done |-> TRUE, r |-> p]
    ELSE IF uint256_eq(p.y, Small(0)) THEN [done |-> TRUE, r |-> AffineInfinity]
    ELSE [done |-> FALSE, fn |-> "ec_double", invert |-> fp_add(p.y, p.y)]

\* ec_double from the return of fp_inv(&denom, &two_y)
ec_double_end(p, denom) ==
    LET x_sq == fp_sqr(p.x)
        num == fp_add(fp_add(x_sq, x_sq), x_sq)
        lambda == fp_mul(num, denom)
        lambda_sq == fp_sqr(lambda)
        rx == fp_sub(fp_sub(lambda_sq, p.x), p.x)
        dx == fp_sub(p.x, rx)
        ry == fp_sub(fp_mul(lambda, dx), p.y)
    IN  Affine(rx, ry)

\* a slip in ec_add: no test for equal x, so P + (-P) goes on to invert
\* x2 - x1 = 0
ec_add_begin_noEqualX(p, q) ==
    IF p.infinity THEN [done |-> TRUE, r |-> q]
    ELSE IF q.infinity THEN [done |-> TRUE, r |-> p]
    ELSE [done |-> FALSE, fn |-> "ec_add", invert |-> fp_sub(q.x, p.x)]

\* ec_add up to the call of fp_inv
ec_add_begin(p, q) ==
    IF p.infinity THEN [done |-> TRUE, r |-> q]
    ELSE IF q.infinity THEN [done |-> TRUE, r |-> p]
    ELSE IF uint256_eq(p.x, q.x) THEN
        IF uint256_eq(p.y, q.y) THEN ec_double_begin(p)
        ELSE [done |-> TRUE, r |-> AffineInfinity]
    ELSE [done |-> FALSE, fn |-> "ec_add", invert |-> fp_sub(q.x, p.x)]

\* ec_add from the return of fp_inv(&dx_inv, &dx)
ec_add_end(p, q, dx_inv) ==
    LET dy == fp_sub(q.y, p.y)
        lambda == fp_mul(dy, dx_inv)
        lambda_sq == fp_sqr(lambda)
        rx == fp_sub(fp_sub(lambda_sq, p.x), q.x)
        t == fp_sub(p.x, rx)
        ry == fp_sub(fp_mul(lambda, t), p.y)
    IN  Affine(rx, ry)

jacobian_double(p) ==
    IF p.infinity THEN p
    ELSE IF uint256_eq(p.Y, Small(0))
    THEN [X |-> Unset, Y |-> Unset, Z |-> Small(0), infinity |-> TRUE]
    ELSE
    LET Y2 == fp_sqr(p.Y)
        S1 == fp_mul(p.X, Y2)
        S2 == fp_add(S1, S1)
        S == fp_add(S2, S2)
        X_sq == fp_sqr(p.X)
        M == fp_add(fp_add(X_sq, X_sq), X_sq)
        M2 == fp_sqr(M)
        X3 == fp_sub(fp_sub(M2, S), S)
        Y4a == fp_sqr(Y2)
        Y4b == fp_add(Y4a, Y4a)
        Y4 == fp_add(Y4b, Y4b)
        Y3 == fp_sub(fp_mul(M, fp_sub(S, X3)), Y4)
        two_Y_Z == fp_mul(p.Y, p.Z)
        Z3 == fp_add(two_Y_Z, two_Y_Z)
    IN  Jacobian(X3, Y3, Z3)

\* the part jacobian_add and mixed_add_jacobian share: from U1, U2, S1, S2
\* and the product of the Z's
jacobian_sum(U1, U2, S1, S2, ZZ) ==
    LET H == fp_sub(U2, U1)
        R_val == fp_sub(S2, S1)
        H_sq == fp_sqr(H)
        H_cub == fp_mul(H_sq, H)
        U1_H_sq == fp_mul(U1, H_sq)
        S1_H_cub == fp_mul(S1, H_cub)
        R_sq == fp_sqr(R_val)
        two_U1_H_sq == fp_add(U1_H_sq, U1_H_sq)
        rX == fp_sub(fp_sub(R_sq, H_cub), two_U1_H_sq)
        rY == fp_sub(fp_mul(R_val, fp_sub(U1_H_sq, rX)), S1_H_cub)
    IN  Jacobian(rX, rY, fp_mul(ZZ, H))

jacobian_add(p, q) ==
    IF p.infinity THEN q
    ELSE IF q.infinity THEN p
    ELSE
    LET Z1_sq == fp_sqr(p.Z)
        Z2_sq == fp_sqr(q.Z)
        Z1_cub == fp_mul(Z1_sq, p.Z)
        Z2_cub == fp_mul(Z2_sq, q.Z)
        U1 == fp_mul(p.X, Z2_sq)
        U2 == fp_mul(q.X, Z1_sq)
        S1 == fp_mul(p.Y, Z2_cub)
        S2 == fp_mul(q.Y, Z1_cub)
    IN  IF uint256_eq(U1, U2) THEN
            IF uint256_eq(S1, S2) THEN jacobian_double(p)
            ELSE [X |-> Unset, Y |-> Unset, Z |-> Small(0), infinity |-> TRUE]
        ELSE jacobian_sum(U1, U2, S1, S2, fp_mul(p.Z, q.Z))

mixed_add_jacobian(p_affine, q) ==
    IF p_affine.infinity THEN q
    ELSE IF q.infinity THEN Jacobian(p_affine.x, p_affine.y, ONE)
    ELSE
    LET Z2_sq == fp_sqr(q.Z)
        Z2_cub == fp_mul(Z2_sq, q.Z)
        U1 == fp_mul(p_affine.x, Z2_sq)
        U2 == q.X
        S1 == fp_mul(p_affine.y, Z2_cub)
        S2 == q.Y
    IN  IF uint256_eq(U1, U2) THEN
            IF uint256_eq(S1, S2)
            THEN jacobian_double(Jacobian(p_affine.x, p_affine.y, ONE))
            ELSE [X |-> Unset, Y |-> Unset, Z |-> Small(0), infinity |-> TRUE]
        ELSE jacobian_sum(U1, U2, S1, S2, q.Z)

\* a slip in jacobian_to_affine: no test of the infinity flag and of Z
jacobian_to_affine_begin_untested(p) ==
    [done |-> FALSE, fn |-> "jacobian_to_affine", invert |-> p.Z]

\* jacobian_to_affine up to the call of fp_inv
jacobian_to_affine_begin(p) ==
    IF p.infinity \/ uint256_eq(p.Z, Small(0)) THEN [done |-> TRUE, r |-> AffineInfinity]
    ELSE [done |-> FALSE, fn |-> "jacobian_to_affine", invert |-> p.Z]

\* jacobian_to_affine from the return of fp_inv(&inv_Z, &p->Z)
jacobian_to_affine_end(p, inv_Z) ==
    LET inv_Z2 == fp_sqr(inv_Z)
        inv_Z3 == fp_mul(inv_Z2, inv_Z)
    IN  Affine(fp_mul(p.X, inv_Z2), fp_mul(p.Y, inv_Z3))

(***************************************************************************)
(* SpecCurve: the kernels' curve arithmetic, run.  One call is made per    *)
(* behaviour: fp_inv(a), scalar_mul_g(offset), scalar_mul_g_jacobian(      *)
(* offset), or the two kernels vanity_iterate_and_match (the affine one,   *)
(* then the Jacobian one) on the same base key and offset.  fp_inv runs    *)
(* one field multiplication per step; the point operations that call it    *)
(* are suspended in cFrame until it returns.                               *)
(***************************************************************************)
\* the largest offset and the largest base key k (base_pubkey = k G) tried
MaxCurveOffset == 3
MaxBaseKey == 2

\* the values fp_inv is called on directly
InvInputs == {Small(2), Small(3)}

\* p - 2
PMinus2 == uint256_sub(SECP256K1_P, Small(2)).r

\* fp_inv's chain: each stage squares the previous stage's result sq times
\* and multiplies by a register (none: the two closing squarings), giving
\* register dst
fp_inv_chain == <<
    [sq |-> 1,  mul |-> "a",    dst |-> "x2"],
    [sq |-> 1,  mul |-> "a",    dst |-> "x3"],
    [sq |-> 3,  mul |-> "x3",   dst |-> "x6"],
    [sq |-> 3,  mul |-> "x3",   dst |-> "x9"],
    [sq |-> 2,  mul |-> "x2",   dst |-> "x11"],
    [sq |-> 11, mul |-> "x11",  dst |-> "x22"],
    [sq |-> 22, mul |-> "x22",  dst |-> "x44"],
    [sq |-> 44, mul |-> "x44",  dst |-> "x88"],
    [sq |-> 88, mul |-> "x88",  dst |-> "x176"],
    [sq |-> 44, mul |-> "x44",  dst |-> "x220"],
    [sq |-> 3,  mul |-> "x3",   dst |-> "x223"],
    [sq |-> 23, mul |-> "x22",  dst |-> "t"],
    [sq |-> 5,  mul |-> "a",    dst |-> "t"],
    [sq |-> 3,  mul |-> "x2",   dst |-> "t"],
    [sq |-> 2,  mul |-> "none", dst |-> "t"] >>

InvRegisters == {"a", "x2", "x3", "x6", "x9", "x11", "x22", "x44", "x88",
                 "x176", "x220", "x223", "t"}

NoInv == [active |-> FALSE]

\* entry of fp_inv(r, a): val is the running value, reg the registers
\* written so far; exp and regExp are the powers of a they hold
fp_inv_enter(a) ==
    [active |-> TRUE, a |-> a, stage |-> 1, left |-> fp_inv_chain[1].sq,
     val |-> a, exp |-> ONE,
     reg |-> [n \in InvRegisters |-> IF n = "a" THEN a ELSE Unset],
     regExp |-> [n \in InvRegisters |-> IF n = "a" THEN ONE ELSE Unset]]

fp_inv_returning == cInv.active /\ cInv.stage = Len(fp_inv_chain) + 1

NoFrame == [fn |-> "none"]

\* -G, the public key of n - 1 (n the order of G): x as for G,
\*      y = p - y(G) = b7c52588d95c3b9aa25b0403f1eef757
\*                     02e84bb7597aabe663b82f6f04ef2777
MinusG == <<
       121, 190, 102, 126, 249, 220, 187, 172,  85, 160,  98, 149, 206, 135,  11,   7,
         2, 155, 252, 219,  45, 206,  40, 217,  89, 242, 129,  91,  22, 248,  23, 152,
       183, 197,  37, 136, 217,  92,  59, 154, 162,  91,   4,   3, 241, 238, 247,  87,
         2, 232,  75, 183,  89, 122, 171, 230,  99, 184,  47, 111,   4, 239,  39, 119 >>

\* points the routines are called on directly: G, -G, 2 G, a point with
\* y = 0, the point at infinity; for the Jacobian routines the same with
\* Z = 1, and G with Z = 0 and the flag not set
PointG == load_g_table_entry(g_table, 0)
PointMinusG == Affine(load_uint256_be(MinusG, 0), load_uint256_be(MinusG, 32))
Point2G == load_g_table_entry(g_table, 1)
PointYZero == Affine(PointG.x, Small(0))
JacobianInfinity == [X |-> Unset, Y |-> Unset, Z |-> Small(0), infinity |-> TRUE]
ToJacobian(p) == IF p.infinity THEN JacobianInfinity ELSE Jacobian(p.x, p.y, ONE)
JacobianZZero == Jacobian(PointG.x, PointG.y, Small(0))

\* the calls that end without a field inversion, and those of the Jacobian
\* routines, which have none
PointJobs ==
    [fn : {"ec_double"}, p : {AffineInfinity, PointYZero}]
    \cup [fn : {"ec_add"},
          p : {AffineInfinity, PointG}, q : {AffineInfinity, PointMinusG}]
    \cup [fn : {"jacobian_double"},
          p : {JacobianInfinity, ToJacobian(PointYZero), ToJacobian(PointG)}]
    \cup [fn : {"jacobian_add"},
          p : {JacobianInfinity, ToJacobian(PointG)},
          q : {JacobianInfinity, ToJacobian(PointMinusG), ToJacobian(PointG),
               ToJacobian(Point2G)}]
    \cup [fn : {"mixed_add_jacobian"},
          p : {AffineInfinity, PointG},
          q : {JacobianInfinity, ToJacobian(PointMinusG), ToJacobian(PointG),
               ToJacobian(Point2G)}]
    \cup [fn : {"jacobian_to_affine"}, p : {JacobianInfinity, JacobianZZero}]

\* the kernels run on the base keys k G with k + offset small, and on the
\* base key -G (k = -1) with offset 1, where the sum is the point at infinity
CurveJobs ==
    [fn : {"fp_inv"}, a : InvInputs]
    \cup [fn : {"scalar_mul_g", "scalar_mul_g_jacobian"}, offset : 0..MaxCurveOffset]
    \cup {j \in [fn : {"vanity_iterate_and_match"}, k : 1..MaxBaseKey,
                 offset : 1..MaxCurveOffset] : j.k + j.offset <= MaxCurveOffset}
    \cup {[fn |-> "vanity_iterate_and_match", k |-> -1, offset |-> 1]}
    \cup PointJobs

\* the kernel argument base_pubkey
base_pubkey == IF cJob.k = -1 THEN MinusG ELSE Multiples[cJob.k]

\* the kernels after q is computed: if (q.infinity) return; otherwise the
\* key is serialized, hashed and matched
AfterSum(q) == IF q.infinity THEN "return" ELSE "point_to_pubkey"

\* base_pt as the kernels load it
base_pt == Affine(load_uint256_be(base_pubkey, 0), load_uint256_be(base_pubkey, 32))

\* offset & (1u << bit): bit number bit of offset
RECURSIVE ShiftRight(_, _)
ShiftRight(v, n) == IF n = 0 THEN v ELSE ShiftRight(v \div 2, n - 1)

BitSet(offset, bit) == ShiftRight(offset, bit) % 2 = 1

CurveInit ==
    /\ cJob \in CurveJobs
    /\ cPc = "call"
    /\ cBit = 0
    /\ cAcc = AffineInfinity
    /\ cAdds = 0
    /\ cFrame = NoFrame
    /\ cInv = NoInv
    /\ cInvCalls = <<>>
    /\ cOut = [returned |-> FALSE]

CurveIdle ==
    /\ cJob = [fn |-> "none"]
    /\ cPc = "idle"
    /\ cBit = 0
    /\ cAcc = AffineInfinity
    /\ cAdds = 0
    /\ cFrame = NoFrame
    /\ cInv = NoInv
    /\ cInvCalls = <<>>
    /\ cOut = [returned |-> FALSE]

\* a point operation that needs fp_inv is suspended and fp_inv entered; one
\* that does not returns r to the position after
Suspend(begun, p, q, at) ==
    /\ cFrame' = [fn |-> begun.fn, p |-> p, q |-> q, at |-> at]
    /\ cInv' = fp_inv_enter(begun.invert)
    /\ cInvCalls' = Append(cInvCalls, [by |-> begun.fn, at |-> at, a |-> begun.invert])
    /\ cPc' = "fp_inv"

\* a routine called directly, up to its return or its call of fp_inv
Begin(job) ==
    IF job.fn = "ec_double" THEN ec_double_begin(job.p)
    ELSE IF job.fn = "ec_add" THEN ec_add_begin(job.p, job.q)
    ELSE IF job.fn = "jacobian_double" THEN [done |-> TRUE, r |-> jacobian_double(job.p)]
    ELSE IF job.fn = "jacobian_add" THEN [done |-> TRUE, r |-> jacobian_add(job.p, job.q)]
    ELSE IF job.fn = "mixed_add_jacobian"
    THEN [done |-> TRUE, r |-> mixed_add_jacobian(job.p, job.q)]
    ELSE jacobian_to_affine_begin(job.p)

\* the call is made: the function's locals are set up; a point routine
\* called directly runs up to its return or its call of fp_inv
Call ==
    /\ cPc = "call"
    /\ IF cJob.fn = "fp_inv"
       THEN /\ cInv' = fp_inv_enter(cJob.a)
            /\ cPc' = "fp_inv"
            /\ UNCHANGED <<cAcc, cFrame, cInvCalls, cOut>>
       ELSE IF cJob \in PointJobs
       THEN /\ cFrame' = [fn |-> cJob.fn, p |-> cJob.p,
                          q |-> IF "q" \in DOMAIN cJob THEN cJob.q ELSE cJob.p,
                          at |-> "call", begun |-> Begin(cJob)]
            /\ cPc' = "begun"
            /\ UNCHANGED <<cAcc, cInv, cInvCalls, cOut>>
       ELSE IF cJob.fn = "scalar_mul_g_jacobian"
       THEN /\ cAcc' = [X |-> Small(0), Y |-> Small(0), Z |-> Small(0), infinity |-> TRUE]
            /\ cPc' = "scalar_mul_g_jacobian"
            /\ UNCHANGED <<cInv, cFrame, cInvCalls, cOut>>
       ELSE \* scalar_mul_g, or the affine kernel, which calls it first
            /\ cAcc' = [x |-> Small(0), y |-> Small(0), infinity |-> TRUE]
            /\ cPc' = "scalar_mul_g"
            /\ UNCHANGED <<cInv, cFrame, cInvCalls, cOut>>
    /\ UNCHANGED <<cJob, cBit, cAdds, outsideCurve>>

\* a point routine called directly returns, or calls fp_inv
point_routine ==
    /\ cPc = "begun"
    /\ IF cFrame.begun.done
       THEN /\ cOut' = [returned |-> TRUE, r |-> cFrame.begun.r]
            /\ cPc' = "done"
            /\ UNCHANGED <<cFrame, cInv, cInvCalls>>
       ELSE /\ Suspend(cFrame.begun, cFrame.p, cFrame.q, "call")
            /\ UNCHANGED cOut
    /\ UNCHANGED <<cJob, cBit, cAcc, cAdds, outsideCurve>>

\* scalar_mul_g: one iteration of the loop over bit
scalar_mul_g_bit ==
    /\ cPc = "scalar_mul_g"
    /\ cBit < 32
    /\ IF BitSet(cJob.offset, cBit)
       THEN LET g_pow == load_g_table_entry(g_table, cBit)
                begun == ec_add_begin(cAcc, g_pow)
            IN  /\ cAdds' = cAdds + 1
                /\ IF begun.done
                   THEN /\ cAcc' = begun.r
                        /\ cBit' = cBit + 1
                        /\ UNCHANGED <<cPc, cFrame, cInv, cInvCalls>>
                   ELSE /\ Suspend(begun, cAcc, g_pow, "scalar_mul_g")
                        /\ UNCHANGED <<cAcc, cBit>>
       ELSE /\ cBit' = cBit + 1
            /\ UNCHANGED <<cPc, cAcc, cAdds, cFrame, cInv, cInvCalls>>
    /\ UNCHANGED <<cJob, cOut, outsideCurve>>

\* scalar_mul_g returns result: to the caller of the call, or into the
\* affine kernel's offset_g
scalar_mul_g_return ==
    /\ cPc = "scalar_mul_g"
    /\ cBit = 32
    /\ IF cJob.fn = "scalar_mul_g"
       THEN /\ cOut' = [returned |-> TRUE, r |-> cAcc]
            /\ cPc' = "done"
       ELSE /\ cPc' = "kernel_ec_add"
            /\ UNCHANGED cOut
    /\ UNCHANGED <<cJob, cBit, cAcc, cAdds, cFrame, cInv, cInvCalls, outsideCurve>>

\* the affine kernel: ec_add(&q, &base_pt, &offset_g)
kernel_ec_add ==
    /\ cPc = "kernel_ec_add"
    /\ LET begun == ec_add_begin(base_pt, cAcc)
       IN  IF begun.done
           THEN /\ cOut' = [returned |-> FALSE, affine |-> begun.r,
                              affineThen |-> AfterSum(begun.r)]
                /\ cPc' = "jacobian_kernel"
                /\ UNCHANGED <<cFrame, cInv, cInvCalls>>
           ELSE /\ Suspend(begun, base_pt, cAcc, "kernel_ec_add")
                /\ UNCHANGED cOut
    /\ UNCHANGED <<cJob, cBit, cAcc, cAdds, outsideCurve>>

\* the Jacobian kernel is launched with the same arguments
jacobian_kernel ==
    /\ cPc = "jacobian_kernel"
    /\ cAcc' = [X |-> Small(0), Y |-> Small(0), Z |-> Small(0), infinity |-> TRUE]
    /\ cBit' = 0
    /\ cAdds' = 0
    /\ cPc' = "scalar_mul_g_jacobian"
    /\ UNCHANGED <<cJob, cFrame, cInv, cInvCalls, cOut, outsideCurve>>

\* scalar_mul_g_jacobian: one iteration of the loop over bit
scalar_mul_g_jacobian_bit ==
    /\ cPc = "scalar_mul_g_jacobian"
    /\ cBit < 32
    /\ IF BitSet(cJob.offset, cBit)
       THEN LET g_affine == load_g_table_entry(g_table, cBit)
                g_jac == Jacobian(g_affine.x, g_affine.y, ONE)
            IN  /\ cAcc' = jacobian_add(cAcc, g_jac)
                /\ cAdds' = cAdds + 1
       ELSE UNCHANGED <<cAcc, cAdds>>
    /\ cBit' = cBit + 1
    /\ UNCHANGED <<cJob, cPc, cFrame, cInv, cInvCalls, cOut, outsideCurve>>

\* scalar_mul_g_jacobian returns result: to the caller of the call, or into
\* the Jacobian kernel's offset_g_jac
scalar_mul_g_jacobian_return ==
    /\ cPc = "scalar_mul_g_jacobian"
    /\ cBit = 32
    /\ IF cJob.fn = "scalar_mul_g_jacobian"
       THEN /\ cOut' = [returned |-> TRUE, r |-> cAcc]
            /\ cPc' = "done"
       ELSE /\ cPc' = "kernel_mixed_add"
            /\ UNCHANGED cOut
    /\ UNCHANGED <<cJob, cBit, cAcc, cAdds, cFrame, cInv, cInvCalls, outsideCurve>>

\* the Jacobian kernel: mixed_add_jacobian(&sum_jac, &base_pt, &offset_g_jac)
kernel_mixed_add ==
    /\ cPc = "kernel_mixed_add"
    /\ cAcc' = mixed_add_jacobian(base_pt, cAcc)
    /\ cPc' = "kernel_to_affine"
    /\ UNCHANGED <<cJob, cBit, cAdds, cFrame, cInv, cInvCalls, cOut, outsideCurve>>

\* the Jacobian kernel: jacobian_to_affine(&q, &sum_jac)
kernel_to_affine ==
    /\ cPc = "kernel_to_affine"
    /\ LET begun == jacobian_to_affine_begin(cAcc)
       IN  IF begun.done
           THEN /\ cOut' = [cOut EXCEPT !.returned = TRUE]
                              @@ [jacobian |-> begun.r, jacobianThen |-> AfterSum(begun.r)]
                /\ cPc' = "done"
                /\ UNCHANGED <<cFrame, cInv, cInvCalls>>
           ELSE /\ Suspend(begun, cAcc, cAcc, "kernel_to_affine")
                /\ UNCHANGED cOut
    /\ UNCHANGED <<cJob, cBit, cAcc, cAdds, outsideCurve>>

\* fp_inv: one fp_sqr(&t, &t) of a stage's loop
fp_inv_sqr ==
    /\ cPc = "fp_inv"
    /\ cInv.active
    /\ cInv.stage <= Len(fp_inv_chain)
    /\ cInv.left > 0
    /\ cInv' = [cInv EXCEPT !.val = fp_sqr(@),
                            !.exp = uint256_add(@, @).r,
                            !.left = @ - 1]
    /\ UNCHANGED <<cJob, cPc, cBit, cAcc, cAdds, cFrame, cInvCalls, cOut, outsideCurve>>

\* fp_inv: the fp_mul that ends a stage (the last stage has none), and the
\* t = ... that begins the next
fp_inv_mul ==
    /\ cPc = "fp_inv"
    /\ cInv.active
    /\ cInv.stage <= Len(fp_inv_chain)
    /\ cInv.left = 0
    /\ LET st == fp_inv_chain[cInv.stage]
           v == IF st.mul = "none" THEN cInv.val ELSE fp_mul(cInv.val, cInv.reg[st.mul])
           e == IF st.mul = "none" THEN cInv.exp
                ELSE uint256_add(cInv.exp, cInv.regExp[st.mul]).r
       IN  cInv' = [cInv EXCEPT !.val = v, !.exp = e,
                                !.reg[st.dst] = v, !.regExp[st.dst] = e,
                                !.stage = @ + 1,
                                !.left = IF cInv.stage < Len(fp_inv_chain)
                                         THEN fp_inv_chain[cInv.stage + 1].sq ELSE 0]
    /\ UNCHANGED <<cJob, cPc, cBit, cAcc, cAdds, cFrame, cInvCalls, cOut, outsideCurve>>

\* fp_inv returns (*r = t); the suspended point operation finishes with it
fp_inv_return ==
    /\ cPc = "fp_inv"
    /\ fp_inv_returning
    /\ cInv' = NoInv
    /\ cFrame' = NoFrame
    /\ LET inv == cInv.val
           r == IF cFrame.fn = "ec_add" THEN ec_add_end(cFrame.p, cFrame.q, inv)
                ELSE IF cFrame.fn = "ec_double" THEN ec_double_end(cFrame.p, inv)
                ELSE IF cFrame.fn = "jacobian_to_affine"
                THEN jacobian_to_affine_end(cFrame.p, inv)
                ELSE inv
       IN  IF cFrame.fn = "none" \/ cFrame.at = "call"
           THEN /\ cOut' = [returned |-> TRUE, r |-> r]
                /\ cPc' = "done"
                /\ UNCHANGED <<cAcc, cBit>>
           ELSE IF cFrame.at = "scalar_mul_g"
           THEN /\ cAcc' = r
                /\ cBit' = cBit + 1
                /\ cPc' = "scalar_mul_g"
                /\ UNCHANGED cOut
           ELSE IF cFrame.at = "kernel_ec_add"
           THEN /\ cOut' = [returned |-> FALSE, affine |-> r, affineThen |-> AfterSum(r)]
                /\ cPc' = "jacobian_kernel"
                /\ UNCHANGED <<cAcc, cBit>>
           ELSE /\ cOut' = [cOut EXCEPT !.returned = TRUE]
                              @@ [jacobian |-> r, jacobianThen |-> AfterSum(r)]
                /\ cPc' = "done"
                /\ UNCHANGED <<cAcc, cBit>>
    /\ UNCHANGED <<cJob, cAdds, cInvCalls, outsideCurve>>

CurveNext ==
    \/ Call
    \/ point_routine
    \/ scalar_mul_g_bit
    \/ scalar_mul_g_return
    \/ kernel_ec_add
    \/ jacobian_kernel
    \/ scalar_mul_g_jacobian_bit
    \/ scalar_mul_g_jacobian_return
    \/ kernel_mixed_add
    \/ kernel_to_affine
    \/ fp_inv_sqr
    \/ fp_inv_mul
    \/ fp_inv_return

(***************************************************************************)
(* Claims about the curve arithmetic                                       *)
(***************************************************************************)
\* the number of set bits of a 32-bit offset
RECURSIVE BitCount(_)
BitCount(offset) == IF offset = 0 THEN 0 ELSE (offset % 2) + BitCount(offset \div 2)

\* n G as an affine point (0 G is the point at infinity)
MultipleOfG(n) ==
    IF n = 0 THEN AffineInfinity
    ELSE Affine(load_uint256_be(Multiples[n], 0), load_uint256_be(Multiples[n], 32))

\* the Jacobian point (X, Y, Z) stands for the affine point (x, y):
\* X = x Z^2 and Y = y Z^3
Represents(jac, aff) ==
    /\ ~jac.infinity
    /\ jac.Z # Small(0)
    /\ jac.X = fp_mul(aff.x, fp_sqr(jac.Z))
    /\ jac.Y = fp_mul(aff.y, fp_mul(fp_sqr(jac.Z), jac.Z))

\* C14: whenever fp_inv returns for an input a with 0 < a < p, the power of
\* a its chain has built is p - 2, and a times the value returned is 1
C14_InverseIsFermat ==
    (fp_inv_returning /\ cInv.a # Small(0) /\ ~uint256_gte(cInv.a, SECP256K1_P)) =>
        /\ cInv.exp = PMinus2
        /\ fp_mul(cInv.a, cInv.val) = ONE

\* C17: scalar_mul_g and scalar_mul_g_jacobian return offset G, made with one
\* point addition per set bit of offset, and return the point at infinity
\* exactly when offset is 0
C17_ScalarMultiple ==
    (cJob.fn \in {"scalar_mul_g", "scalar_mul_g_jacobian"} /\ cOut.returned) =>
        /\ cAdds = BitCount(cJob.offset)
        /\ cOut.r.infinity <=> cJob.offset = 0
        /\ cJob.offset # 0 =>
            IF cJob.fn = "scalar_mul_g"
            THEN cOut.r = MultipleOfG(cJob.offset)
            ELSE Represents(cOut.r, MultipleOfG(cJob.offset))

\* C18: on the same base key k G and offset i, the Jacobian kernel and the
\* affine kernel compute the same point q, and q is (k + i) G
C18_KernelsAgree ==
    (cJob.fn = "vanity_iterate_and_match" /\ cOut.returned) =>
        /\ cOut.jacobian = cOut.affine
        /\ cOut.affine = MultipleOfG(cJob.k + cJob.offset)

\* q is the negation of p: the same x, and y's that add up to zero
Negation(px, py, qx, qy) ==
    /\ px = qx
    /\ py # Small(0)
    /\ fp_add(py, qy) = Small(0)

\* what C22 asks of a routine called directly on p (and q), once it returned r
InfinityHandled(job, r) ==
    IF job.fn = "ec_double" THEN
        (job.p.infinity \/ job.p.y = Small(0)) => r.infinity
    ELSE IF job.fn = "jacobian_double" THEN
        (job.p.infinity \/ job.p.Y = Small(0)) => r.infinity
    ELSE IF job.fn = "ec_add" THEN
        /\ job.p.infinity => r = job.q
        /\ (~job.p.infinity /\ job.q.infinity) => r = job.p
        /\ (~job.p.infinity /\ ~job.q.infinity
              /\ Negation(job.p.x, job.p.y, job.q.x, job.q.y)) => r.infinity
    ELSE IF job.fn = "jacobian_add" THEN
        /\ job.p.infinity => r = job.q
        /\ (~job.p.infinity /\ job.q.infinity) => r = job.p
        /\ (~job.p.infinity /\ ~job.q.infinity
              /\ Negation(job.p.X, job.p.Y, job.q.X, job.q.Y)) => r.infinity
    ELSE IF job.fn = "mixed_add_jacobian" THEN
        /\ job.p.infinity => r = job.q
        /\ (~job.p.infinity /\ job.q.infinity) =>
               (~r.infinity /\ r.X = job.p.x /\ r.Y = job.p.y /\ r.Z = ONE)
        /\ (~job.p.infinity /\ ~job.q.infinity
              /\ Negation(job.p.x, job.p.y, job.q.X, job.q.Y)) => r.infinity
    ELSE \* jacobian_to_affine
        (job.p.infinity \/ job.p.Z = Small(0)) => r.infinity

\* C22: the curve routines never call fp_inv on zero; doubling a point with
\* y = 0 and adding a point to its negation give the point at infinity, an
\* infinity operand is passed on to the result, a Jacobian point with Z = 0
\* converts to infinity, and a kernel whose sum q is the point at infinity
\* returns before it serializes, hashes or reports anything
C22_InfinityTracked ==
    /\ \A i \in 1..Len(cInvCalls) : cInvCalls[i].a # Small(0)
    /\ (cJob \in PointJobs /\ cOut.returned) => InfinityHandled(cJob, cOut.r)
    /\ ("affine" \in DOMAIN cOut /\ cOut.affine.infinity) => cOut.affineThen = "return"
    /\ ("jacobian" \in DOMAIN cOut /\ cOut.jacobian.infinity) =>
           cOut.jacobianThen = "return"

\* both kernels have run on the base key -G with offset 1, where the sum is
\* the point at infinity
C22_Witness ==
    /\ cJob.fn = "vanity_iterate_and_match"
    /\ cJob.k = -1
    /\ cOut.returned
    /\ cOut.affine.infinity /\ cOut.affineThen = "return"
    /\ cOut.jacobian.infinity /\ cOut.jacobianThen = "return"
    /\ cInvCalls = <<>>

\* the calls of fp_inv made by the Jacobian kernel
JacobianPositions == {"scalar_mul_g_jacobian", "kernel_mixed_add", "kernel_to_affine"}

JacobianKernelCalls ==
    {i \in 1..Len(cInvCalls) : cInvCalls[i].at \in JacobianPositions}

\* C23: a work item of the Jacobian kernel calls fp_inv once, in
\* jacobian_to_affine, when its sum is finite, and not at all otherwise;
\* scalar_mul_g_jacobian, jacobian_add, jacobian_double and
\* mixed_add_jacobian never call it
C23_OneInversion ==
    /\ \A i \in JacobianKernelCalls :
           /\ cInvCalls[i].by = "jacobian_to_affine"
           /\ cInvCalls[i].at = "kernel_to_affine"
           /\ ~cAcc.infinity
    /\ Cardinality(JacobianKernelCalls) <= 1
    /\ cPc \in JacobianPositions => JacobianKernelCalls = {}
    /\ (cJob.fn = "vanity_iterate_and_match" /\ cOut.returned) =>
           Cardinality(JacobianKernelCalls) = IF cAcc.infinity THEN 0 ELSE 1
    /\ cJob.fn \in {"scalar_mul_g_jacobian", "jacobian_add", "jacobian_double",
                    "mixed_add_jacobian"} => cInvCalls = <<>>

\* the Jacobian kernel has finished a work item with a finite sum
C23_Witness ==
    /\ cJob.fn = "vanity_iterate_and_match"
    /\ cJob.k = 1 /\ cJob.offset = 2
    /\ cOut.returned
    /\ ~cAcc.infinity
    /\ Cardinality(JacobianKernelCalls) = 1

(***************************************************************************)
(* SpecKeccak: keccak256_64bytes of the kernels, run on a 64-byte input.   *)
(* A ulong lane is written as the set of its bits that are 1 (bit 0 the    *)
(* least significant), so ^ is the symmetric difference, & the             *)
(* intersection and ~ the complement in 0..63.  st[i] is element i + 1.    *)
(* The Keccak-f[1600] of the Keccak reference (FIPS 202, section 3.2) is   *)
(* run next to the kernel's, on the state A[x, y] = lane x + 5y.           *)
(***************************************************************************)
Bits64 == 0..63

Xor(a, b) == (a \ b) \cup (b \ a)

\* x << n and x >> n on ulongs
Shl64(x, n) == {i + n : i \in {b \in x : b + n <= 63}}
Shr64(x, n) == {i - n : i \in {b \in x : b >= n}}

\* rotl64: (x << n) | (x >> (64 - n))
rotl64(x, n) == Shl64(x, n) \cup Shr64(x, 64 - n)

\* bit b of byte v
ByteBit(v, b) == (v \div (2 ^ b)) % 2 = 1

\* (ulong)v << (j * 8) for a byte v
ByteInLane(v, j) == {8 * j + b : b \in {c \in 0..7 : ByteBit(v, c)}}

\* (uchar)(lane >> (j * 8))
ByteOfLane(lane, j) ==
    LET low == {b \in 0..7 : (8 * j + b) \in lane}
        weights == [b \in 0..7 |-> IF b \in low THEN 2 ^ b ELSE 0]
    IN  weights[0] + weights[1] + weights[2] + weights[3]
        + weights[4] + weights[5] + weights[6] + weights[7]

keccak_rotc == <<
     1,  3,  6, 10, 15, 21, 28, 36,
    45, 55,  2, 14, 27, 41, 56,  8,
    25, 43, 62, 18, 39, 21, 56, 14 >>

keccak_piln == <<
    10,  7, 11, 17, 18,  3,  5, 16,
     8, 21, 24,  4, 15, 23, 19, 13,
    12,  2, 20, 14, 22,  9,  6,  1 >>

keccak_rndc == <<
    {0},                                    \* 0x0000000000000001
    {1, 7, 15},                             \* 0x0000000000008082
    {1, 3, 7, 15, 63},                      \* 0x800000000000808a
    {15, 31, 63},                           \* 0x8000000080008000
    {0, 1, 3, 7, 15},                       \* 0x000000000000808b
    {0, 31},                                \* 0x0000000080000001
    {0, 7, 15, 31, 63},                     \* 0x8000000080008081
    {0, 3, 15, 63},                         \* 0x8000000000008009
    {1, 3, 7},                              \* 0x000000000000008a
    {3, 7},                                 \* 0x0000000000000088
    {0, 3, 15, 31},                         \* 0x0000000080008009
    {1, 3, 31},                             \* 0x000000008000000a
    {0, 1, 3, 7, 15, 31},                   \* 0x000000008000808b
    {0, 1, 3, 7, 63},                       \* 0x800000000000008b
    {0, 3, 7, 15, 63},                      \* 0x8000000000008089
    {0, 1, 15, 63},                         \* 0x8000000000008003
    {1, 15, 63},                            \* 0x8000000000008002
    {7, 63},                                \* 0x8000000000000080
    {1, 3, 15},                             \* 0x000000000000800a
    {1, 3, 31, 63},                         \* 0x800000008000000a
    {0, 7, 15, 31, 63},                     \* 0x8000000080008081
    {7, 15, 63},                            \* 0x8000000000008080
    {0, 31},                                \* 0x0000000080000001
    {3, 15, 31, 63}                         \* 0x8000000080008008
>>

\* the number of rounds of keccak_f1600
KeccakRounds == 24

\* Theta: bc[i] = st[i] ^ st[i+5] ^ st[i+10] ^ st[i+15] ^ st[i+20], then
\* st[j+i] ^= bc[(i+4)%5] ^ rotl64(bc[(i+1)%5], 1)
keccak_theta(st) ==
    LET bc == [i \in 0..4 |->
                Xor(Xor(Xor(Xor(st[i + 1], st[i + 6]), st[i + 11]), st[i + 16]), st[i + 21])]
        t == [i \in 0..4 |-> Xor(bc[(i + 4) % 5], rotl64(bc[(i + 1) % 5], 1))]
    IN  [k \in 1..25 |-> Xor(st[k], t[(k - 1) % 5])]

\* Rho and Pi: the loop over i, with t the lane carried along
RECURSIVE keccak_rho_pi(_, _, _)
keccak_rho_pi(st, i, t) ==
    IF i = 24 THEN st
    ELSE keccak_rho_pi([st EXCEPT ![keccak_piln[i + 1] + 1] = rotl64(t, keccak_rotc[i + 1])],
                       i + 1, st[keccak_piln[i + 1] + 1])

\* Chi: st[j+i] = tmp[i] ^ ((~tmp[(i+1)%5]) & tmp[(i+2)%5])
keccak_chi(st) ==
    [k \in 1..25 |->
        LET j == 5 * ((k - 1) \div 5)
            i == (k - 1) % 5
        IN  Xor(st[k], (Bits64 \ st[j + ((i + 1) % 5) + 1]) \cap st[j + ((i + 2) % 5) + 1])]

\* Iota: st[0] ^= keccak_rndc[round]
keccak_iota(st, round) == [st EXCEPT ![1] = Xor(@, keccak_rndc[round + 1])]

\* one round of keccak_f1600
keccak_round(st, round) ==
    keccak_iota(keccak_chi(keccak_rho_pi(keccak_theta(st), 0, keccak_theta(st)[2])), round)

\* keccak256_64bytes: st zeroed, then the 64 bytes absorbed into lanes 0..7
keccak_absorb(input) ==
    [k \in 1..25 |->
        IF k <= 8
        THEN UNION {ByteInLane(input[(k - 1) * 8 + j + 1], j) : j \in 0..7}
        ELSE {}]

\* st[8] ^= 0x01UL
keccak_pad_domain_sha3(st) == [st EXCEPT ![9] = Xor(@, {1, 2})]

keccak_pad_domain(st) == [st EXCEPT ![9] = Xor(@, {0})]

\* st[16] ^= 0x80UL << 56
keccak_pad_final(st) == [st EXCEPT ![17] = Xor(@, Shl64({7}, 56))]

\* squeeze: output[i*8 + j] = (uchar)(st[i] >> (j * 8)) for i < 4
keccak_squeeze(st) == [k \in 1..32 |-> ByteOfLane(st[(k - 1) \div 8 + 1], (k - 1) % 8)]

(***************************************************************************)
(* The reference permutation.                                              *)
(***************************************************************************)
XY == (0..4) \X (0..4)

Rot(x, n) == {(i + n) % 64 : i \in x}

\* the rho offset of step t
RhoOffset(t) == (((t + 1) * (t + 2)) \div 2) % 64

\* the position (x, y) of step t: (1, 0), then (x, y) -> (y, 2x + 3y)
RECURSIVE RhoPosition(_)
RhoPosition(t) ==
    IF t = 0 THEN <<1, 0>>
    ELSE LET p == RhoPosition(t - 1)
         IN  <<p[2], (2 * p[1] + 3 * p[2]) % 5>>

\* the degree-8 LFSR of the round constants: one step
LfsrStep(R) ==
    <<R[8], R[1], R[2], R[3], (R[4] + R[8]) % 2, (R[5] + R[8]) % 2,
      (R[6] + R[8]) % 2, R[7]>>

\* n steps
RECURSIVE LfsrSteps(_, _)
LfsrStepsNext(next, n) == IF Len(next) = 8 THEN LfsrSteps(next, n) ELSE <<>>

LfsrSteps(R, n) == IF n = 0 THEN R ELSE LfsrStepsNext(LfsrStep(R), n - 1)

\* the LFSR after 7r steps
RECURSIVE LfsrAtRound(_)
LfsrAtRound(r) ==
    IF r = 0 THEN <<1, 0, 0, 0, 0, 0, 0, 0>> ELSE LfsrSteps(LfsrAtRound(r - 1), 7)

\* RC of round r: bit 2^j - 1 is rc(j + 7r), bit 0 of the LFSR after j + 7r
\* steps
RoundConstant(r) ==
    {2 ^ j - 1 : j \in {i \in 0..6 : LfsrSteps(LfsrAtRound(r), i)[1] = 1}}

RoundConstants == [r \in 0..23 |-> RoundConstant(r)]

RhoPositions == [t \in 0..24 |-> RhoPosition(t)]

\* the state as A[x, y], and back
LanesToXY(st) == [p \in XY |-> st[p[1] + 5 * p[2] + 1]]
XYToLanes(A) == [k \in 1..25 |-> A[<<(k - 1) % 5, (k - 1) \div 5>>]]

RefTheta(A) ==
    LET C == [x \in 0..4 |->
                Xor(Xor(Xor(Xor(A[<<x, 0>>], A[<<x, 1>>]), A[<<x, 2>>]), A[<<x, 3>>]), A[<<x, 4>>])]
        D == [x \in 0..4 |-> Xor(C[(x + 4) % 5], Rot(C[(x + 1) % 5], 1))]
    IN  [p \in XY |-> Xor(A[p], D[p[1]])]

RefRho(A) ==
    [p \in XY |->
        IF p = <<0, 0>> THEN A[p]
        ELSE Rot(A[p], RhoOffset(CHOOSE t \in 0..23 : RhoPositions[t] = p))]

\* B[y, 2x + 3y] = A[x, y]
RefPi(A) ==
    [p \in XY |-> A[CHOOSE q \in XY : <<q[2], (2 * q[1] + 3 * q[2]) % 5>> = p]]

RefChi(A) ==
    [p \in XY |->
        Xor(A[p], (Bits64 \ A[<<(p[1] + 1) % 5, p[2]>>]) \cap A[<<(p[1] + 2) % 5, p[2]>>])]

RefIota(A, r) == [A EXCEPT ![<<0, 0>>] = Xor(@, RoundConstants[r])]

RefRound(st, r) ==
    XYToLanes(RefIota(RefChi(RefPi(RefRho(RefTheta(LanesToXY(st))))), r))

\* the bytes of a state, byte k of lane i at position 8i + k
StateBytes(st) == [k \in 1..200 |-> ByteOfLane(st[(k - 1) \div 8 + 1], (k - 1) % 8)]

\* the padded block of Keccak-256 (rate 136 bytes, pad10*1 on the bits of the
\* message: first pad bit at byte 64, last at the end of byte 135), as a state
RefPadded(input) ==
    LET block == input \o <<1>> \o [k \in 1..70 |-> 0] \o <<128>> \o [k \in 1..64 |-> 0]
    IN  [k \in 1..25 |-> UNION {ByteInLane(block[(k - 1) * 8 + j + 1], j) : j \in 0..7}]

(***************************************************************************)
(* The run.                                                                *)
(***************************************************************************)
\* the 64-byte inputs: zeros, 0..63, 0xff, and the public keys G and 2G
KeccakInputs ==
    {[k \in 1..64 |-> 0], [k \in 1..64 |-> k - 1], [k \in 1..64 |-> 255],
     Multiples[1], Multiples[2]}

ZeroState == [k \in 1..25 |-> {}]

KeccakInit ==
    /\ kIn \in KeccakInputs
    /\ kPc = "absorb"
    /\ kRound = 0
    /\ kSt = ZeroState
    /\ kRef = ZeroState
    /\ kCalls = 0
    /\ kOut = <<>>

KeccakIdle ==
    /\ kIn = <<>>
    /\ kPc = "idle"
    /\ kRound = 0
    /\ kSt = ZeroState
    /\ kRef = ZeroState
    /\ kCalls = 0
    /\ kOut = <<>>

\* st zeroed and the input absorbed
Absorb ==
    /\ kPc = "absorb"
    /\ kSt' = keccak_absorb(kIn)
    /\ kPc' = "pad"
    /\ UNCHANGED <<kIn, kRound, kRef, kCalls, kOut, outsideKeccak>>

\* the two padding bytes; keccak_f1600(st) is called
Pad ==
    /\ kPc = "pad"
    /\ kSt' = keccak_pad_final(keccak_pad_domain(kSt))
    /\ kRef' = RefPadded(kIn)
    /\ kCalls' = kCalls + 1
    /\ kRound' = 0
    /\ kPc' = "keccak_f1600"
    /\ UNCHANGED <<kIn, kOut, outsideKeccak>>

\* one round of keccak_f1600, and one of the reference on its own state
Round ==
    /\ kPc = "keccak_f1600"
    /\ kRound < KeccakRounds
    /\ kSt' = keccak_round(kSt, kRound)
    /\ kRef' = RefRound(kRef, kRound)
    /\ kRound' = kRound + 1
    /\ UNCHANGED <<kIn, kPc, kCalls, kOut, outsideKeccak>>

\* keccak_f1600 returns
Permuted ==
    /\ kPc = "keccak_f1600"
    /\ kRound = KeccakRounds
    /\ kPc' = "squeeze"
    /\ UNCHANGED <<kIn, kRound, kSt, kRef, kCalls, kOut, outsideKeccak>>

\* the first 32 bytes of the state are written to output
Squeeze ==
    /\ kPc = "squeeze"
    /\ kOut' = keccak_squeeze(kSt)
    /\ kPc' = "done"
    /\ UNCHANGED <<kIn, kRound, kSt, kRef, kCalls, outsideKeccak>>

KeccakNext == Absorb \/ Pad \/ Round \/ Permuted \/ Squeeze

(***************************************************************************)
(* Claims about the kernels' Keccak-256                                    *)
(***************************************************************************)
\* the block the permutation is applied to: the input, the domain byte 0x01
\* at byte 64, zeros, 0x80 at byte 135, and the 64 bytes of the capacity
PaddedBlock(input) ==
    input \o <<1>> \o [k \in 1..70 |-> 0] \o <<128>> \o [k \in 1..64 |-> 0]

\* byte k of the state is the byte v: bit b of v is bit 8 (k mod 8) + b of
\* lane k div 8
StateByteIs(st, k, v) ==
    \A b \in 0..7 : ByteBit(v, b) <=> (8 * (k % 8) + b) \in st[(k \div 8) + 1]

\* C15: keccak_f1600 is Keccak-f[1600]: its rho amounts are (t+1)(t+2)/2 mod
\* 64, its pi order and its round constants are the standard ones, after
\* every round its state is the reference's, and the hash is the reference
\* Keccak-256 of the input
C15_StandardPermutation ==
    kPc = "done" =>
        /\ \A t \in 0..23 : keccak_rotc[t + 1] = RhoOffset(t)
        /\ \A t \in 0..23 :
               keccak_piln[t + 1] = RhoPositions[t + 1][1] + 5 * RhoPositions[t + 1][2]
        /\ \A r \in 0..23 : keccak_rndc[r + 1] = RoundConstants[r]
        /\ kSt = kRef
        /\ kPc = "done" => kOut = keccak_squeeze(kRef)

\* C16: the permutation is entered once, on the state whose bytes are the
\* input, 0x01 at byte 64 (lane 8 = 1), 0x80 at byte 135 (lane 16 = 2^63)
\* and zeros elsewhere; the output is bytes 0..31 of the state it leaves
C16_AbsorbPadSqueeze ==
    /\ kPc = "pad" =>
           \A k \in 0..199 : StateByteIs(kSt, k, IF k < 64 THEN kIn[k + 1] ELSE 0)
    /\ (kPc = "keccak_f1600" /\ kRound = 0) =>
           /\ \A k \in 0..199 : StateByteIs(kSt, k, PaddedBlock(kIn)[k + 1])
           /\ kSt[9] = {0}
           /\ kSt[17] = {63}
    /\ kCalls = IF kPc \in {"keccak_f1600", "squeeze", "done"} THEN 1 ELSE 0
    /\ kPc \in {"squeeze", "done"} => kRound = KeccakRounds
    /\ kPc = "done" =>
           /\ Len(kOut) = 32
           /\ \A k \in 0..31 : kOut[k + 1] \in 0..255 /\ StateByteIs(kSt, k, kOut[k + 1])

C16_Witness ==
    /\ kPc = "done"
    /\ kIn = Multiples[1]
    /\ kCalls = 1
    /\ kOut # [k \in 1..32 |-> 0]

(***************************************************************************)
(* SpecNonce: the executor's verify.js, formula mode, on its --salt-nonce   *)
(* argument.                                                               *)
(***************************************************************************)
\* verify.js saltNonceToBytes: 64 hex characters (after strip0x) are bytes,
\* anything else is taken as decimal
saltNonceToBytes(saltNonceStr) ==
    LET raw == strip0x(saltNonceStr)
    IN  IF Len(raw) = 64 /\ \A i \in 1..64 : IsHexChar(raw[i])
        THEN BufferFromHex(raw)
        ELSE saltNonceDecimalToBytes(saltNonceStr)

\* the longest decimal string tried: 2^256 - 1 has 78 digits
MaxNonceDigits == 78

\* the digits 1234567890 repeated
DigitRun(n) == [i \in 1..n |-> Digits[(i % 10) + 1]]

\* 2^256 - 1 =
\*   115792089237316195423570985008687907853269984665640564039457584007913129639935
MaxNonce ==
    <<"1", "1", "5", "7", "9", "2", "0", "8", "9", "2", "3", "7", "3",
     "1", "6", "1", "9", "5", "4", "2", "3", "5", "7", "0", "9", "8",
     "5", "0", "0", "8", "6", "8", "7", "9", "0", "7", "8", "5", "3",
     "2", "6", "9", "9", "8", "4", "6", "6", "5", "6", "4", "0", "5",
     "6", "4", "0", "3", "9", "4", "5", "7", "5", "8", "4", "0", "0",
     "7", "9", "1", "3", "1", "2", "9", "6", "3", "9", "9", "3", "5">>

\* decimal strings as the miner prints them (no leading zero), of every
\* length below 2^256: d 0...0 for d = 1 and 9, a run of mixed digits, and
\* of MaxNonceDigits digits 10^77 and 2^256 - 1
DecimalNonces ==
    {<<"0">>}
    \cup {<<d>> \o [i \in 1..(n - 1) |-> "0"] :
              d \in {"1", "9"}, n \in 1..(MaxNonceDigits - 1)}
    \cup {DigitRun(n) : n \in 1..(MaxNonceDigits - 1)}
    \cup {<<"1">> \o [i \in 1..(MaxNonceDigits - 1) |-> "0"], MaxNonce}

\* 64 hex characters, with and without the 0x prefix
HexNonces ==
    LET h == {[i \in 1..64 |-> "0"],
              [i \in 1..64 |-> IF i % 2 = 1 THEN "a" ELSE "B"],
              [i \in 1..64 |-> HexLower[((i * 7) % 16) + 1]],
              [i \in 1..64 |-> HexUpper[((i * 5) % 16) + 1]]}
    IN  h \cup {<<"0", "x">> \o s : s \in h}

NonceInputs ==
    {[kind |-> "decimal", str |-> s] : s \in DecimalNonces}
    \cup {[kind |-> "hex", str |-> s] : s \in HexNonces}

NonceInit ==
    /\ nIn \in NonceInputs
    /\ nOut = NotCalled

NonceIdle ==
    /\ nIn = [kind |-> "none", str |-> <<>>]
    /\ nOut = NotCalled

\* runFormulaMode: saltNonceBytes = saltNonceToBytes(args.saltNonce), and the
\* check of its length
FormulaNonce ==
    /\ ~nOut.called
    /\ LET saltNonceBytes == saltNonceToBytes(nIn.str)
       IN  nOut' = IF Len(saltNonceBytes) # 32
                   THEN Threw("salt_nonce must be 32 bytes (decimal or 64 hex)")
                   ELSE Returned(saltNonceBytes)
    /\ UNCHANGED <<nIn, outsideNonce>>

NonceNext == FormulaNonce

(***************************************************************************)
(* Claims about the --salt-nonce argument                                  *)
(***************************************************************************)
\* bytes (most significant first) divided by 10^6: quotient and remainder
RECURSIVE DivMillion(_, _, _)
DivMillion(bytes, k, rem) ==
    IF k > Len(bytes) THEN [q |-> <<>>, rem |-> rem]
    ELSE LET rest == DivMillion(bytes, k + 1, (rem * 256 + bytes[k]) % 1000000)
         IN  [q |-> <<(rem * 256 + bytes[k]) \div 1000000>> \o rest.q,
              rem |-> rest.rem]

\* six decimal digits of a number below 10^6
SixDigits(n) == [i \in 1..6 |-> Digits[((n \div (10 ^ (6 - i))) % 10) + 1]]

\* the decimal digits of the number that big-endian bytes encode, in groups
\* of six
RECURSIVE DecimalOf(_)
DecimalOfNext(d) ==
    IF Len(d.q) >= 0 THEN DecimalOf(d.q) \o SixDigits(d.rem) ELSE <<>>

DecimalOf(bytes) ==
    IF \A k \in 1..Len(bytes) : bytes[k] = 0 THEN <<>>
    ELSE DecimalOfNext(DivMillion(bytes, 1, 0))

\* without the leading zeros of the first group
Unpadded(digits) ==
    IF \A i \in 1..Len(digits) : digits[i] = "0" THEN <<"0">>
    ELSE SubSeq(digits,
                CHOOSE i \in 1..Len(digits) :
                    digits[i] # "0" /\ \A j \in 1..(i - 1) : digits[j] = "0",
                Len(digits))

\* the number that big-endian bytes encode, written in decimal
DecimalString(bytes) == Unpadded(DecimalOf(bytes))

\* C19: a decimal --salt-nonce below 2^256 gives the 32 bytes that encode the
\* number big-endian; 64 hex characters (0x-prefixed or not) give the bytes
\* the characters denote
C19_SaltNonceBytes ==
    nOut.called =>
        /\ ~nOut.threw
        /\ Len(nOut.value) = 32
        /\ nIn.kind = "decimal" => DecimalString(nOut.value) = nIn.str
        /\ nIn.kind = "hex" =>
               \A k \in 1..32 :
                   nOut.value[k] = 16 * HexVal(strip0x(nIn.str)[2 * k - 1])
                                   + HexVal(strip0x(nIn.str)[2 * k])

(***************************************************************************)
(* SpecVerify: verify.js in formula mode, main() and runFormulaMode, in    *)
(* the lib-based script and in the script with its own formula             *)
(***************************************************************************)
LibVerify == "verify.js on lib/safe-config.js"
LegacyVerify == "verify-with-safe-sdk/verify.js"

\* nothing printed, not exited
NoVerifyOutput == [called |-> FALSE, exit |-> -1, error |-> "", printed |-> {}]

\* main().catch: console.error(err); process.exit(1)
VerifyFailed(err) == [called |-> TRUE, exit |-> 1, error |-> err, printed |-> {}]

\* BigInt(str) reads 0x and hex digits as a hex number
IsHexLiteral(str) ==
    /\ StartsWith0x(str) /\ Len(str) > 2
    /\ \A i \in 3..Len(str) : IsHexChar(str[i])

\* BigInt(decStr) of saltNonceDecimalToBytes throws a SyntaxError on any other
\* string with a character that is no digit (no signs or spaces are offered)
BigIntThrows(str) == ~IsHexLiteral(str) /\ \E i \in 1..Len(str) : ~IsDigit(str[i])

\* saltNonceDecimalToBytes of a hex literal
saltNonceLiteralToBytes(str) ==
    BufferFromHex(padStart0(toLowerCase(Unpadded(strip0x(str))), 64))

\* runFormulaMode(args)
runFormulaMode(vscript, args) ==
    LET factory == hexToBytes(args.factory)
        initCodeHash == hexToBytes(args.initCodeHash)
        initializerHash == hexToBytes(args.initializerHash)
        raw == strip0x(args.saltNonce)
        saltNonceBytes ==
            IF vscript = LegacyVerify THEN hexToBytes(args.saltNonce)
            ELSE IF Len(raw) = 64 /\ \A i \in 1..64 : IsHexChar(raw[i])
                 THEN Returned(saltNonceToBytes(args.saltNonce))
            ELSE IF BigIntThrows(args.saltNonce) THEN Threw("SyntaxError: Cannot convert to a BigInt")
            ELSE IF IsHexLiteral(args.saltNonce)
                 THEN Returned(saltNonceLiteralToBytes(args.saltNonce))
            ELSE Returned(saltNonceToBytes(args.saltNonce))
    IN  IF factory.threw THEN VerifyFailed(factory.value)
        ELSE IF initCodeHash.threw THEN VerifyFailed(initCodeHash.value)
        ELSE IF initializerHash.threw THEN VerifyFailed(initializerHash.value)
        ELSE IF saltNonceBytes.threw THEN VerifyFailed(saltNonceBytes.value)
        ELSE IF Len(factory.value) # 20
             THEN VerifyFailed("factory must be 20 bytes (40 hex chars)")
        ELSE IF Len(initCodeHash.value) # 32
             THEN VerifyFailed("init_code_hash must be 32 bytes")
        ELSE IF Len(initializerHash.value) # 32
             THEN VerifyFailed("initializer_hash must be 32 bytes")
        ELSE IF Len(saltNonceBytes.value) # 32
             THEN VerifyFailed("salt_nonce must be 32 bytes")
        ELSE LET address ==
                     IF vscript = LegacyVerify
                     THEN safeAddress(factory.value, initCodeHash.value,
                                      safeSalt(initializerHash.value, saltNonceBytes.value))
                     ELSE Returned(computeCreate2Address(args.factory, args.initCodeHash,
                                       args.initializerHash, saltNonceBytes.value))
             IN  IF address.threw THEN VerifyFailed(address.value)
                 ELSE [called |-> TRUE, exit |-> 0, error |-> "",
                       printed |-> {<<"Address:", toChecksumAddress(address.value)>>,
                                    <<"Address hex:", BufToHex(address.value)>>}]

\* main() of verify.js without --sdk
verify_main(vscript, args) ==
    IF args.factory = <<>> \/ args.initCodeHash = <<>>
         \/ args.initializerHash = <<>> \/ args.saltNonce = <<>>
    THEN [called |-> TRUE, exit |-> 1, error |-> "Formula mode requires", printed |-> {}]
    ELSE runFormulaMode(vscript, args)

\* 2^256 in decimal
TwoTo256Decimal == <<
     "1", "1", "5", "7", "9", "2", "0", "8", "9", "2", "3", "7", "3", "1", "6", "1", "9", "5", "4", "2",
     "3", "5", "7", "0", "9", "8", "5", "0", "0", "8", "6", "8", "7", "9", "0", "7", "8", "5", "3", "2",
     "6", "9", "9", "8", "4", "6", "6", "5", "6", "4", "0", "5", "6", "4", "0", "3", "9", "4", "5", "7",
     "5", "8", "4", "0", "0", "7", "9", "1", "3", "1", "2", "9", "6", "3", "9", "9", "3", "6">>

\* a field of size bytes as a caller may write it: well formed (with 0x or
\* without), a byte short or long, a digit short, a last digit that is no
\* hex digit, two such characters appended, or not given
HexArguments(seed, size) ==
    LET good == EncodeHex(GenBytes(seed, size), FALSE, FALSE)
    IN  {good,
         EncodeHex(GenBytes(seed, size), TRUE, TRUE),
         EncodeHex(GenBytes(seed, size - 1), FALSE, FALSE),
         EncodeHex(GenBytes(seed, size + 1), TRUE, FALSE),
         SubSeq(good, 1, Len(good) - 1),
         SubSeq(good, 1, Len(good) - 1) \o <<"z">>,
         good \o <<"z", "z">>,
         <<>>}

\* the salt nonces offered: those, and decimal strings up to 2^256
NonceArguments ==
    HexArguments(3, 32)
    \cup {<<"1", "2", "3", "4", "5">>, DigitRun(40), MaxNonce, TwoTo256Decimal}

VerifyInit ==
    /\ vScript \in {LibVerify, LegacyVerify}
    /\ vArgs \in [factory : HexArguments(1, 20),
                  initCodeHash : {EncodeHex(GenBytes(2, 32), FALSE, FALSE),
                                  EncodeHex(GenBytes(2, 31), FALSE, FALSE)},
                  initializerHash : {EncodeHex(GenBytes(4, 32), TRUE, FALSE),
                                     EncodeHex(GenBytes(4, 32), TRUE, FALSE) \o <<"0">>},
                  saltNonce : NonceArguments]
    /\ vOut = NoVerifyOutput

VerifyIdle ==
    /\ vScript = "none"
    /\ vArgs = [factory |-> <<>>, initCodeHash |-> <<>>, initializerHash |-> <<>>,
                saltNonce |-> <<>>]
    /\ vOut = NoVerifyOutput

\* node verify.js with the four arguments
RunVerify ==
    /\ ~vOut.called
    /\ vOut' = verify_main(vScript, vArgs)
    /\ UNCHANGED <<vScript, vArgs, outsideVerify>>

VerifyNext == RunVerify

(***************************************************************************)
(* Claims about verify.js                                                  *)
(***************************************************************************)
\* str is size bytes in hex: 2 size hex digits, with or without 0x
IsHexOfSize(str, size) ==
    LET h == strip0x(str)
    IN  Len(h) = 2 * size /\ \A i \in 1..Len(h) : IsHexChar(h[i])

\* str is a decimal number below 2^256 (no leading zeros are offered)
IsDecimalBelow2To256(str) ==
    /\ str # <<>>
    /\ \A i \in 1..Len(str) : IsDigit(str[i])
    /\ \/ Len(str) < Len(MaxNonce)
       \/ /\ Len(str) = Len(MaxNonce)
          /\ \/ str = MaxNonce
             \/ \E i \in 1..Len(str) :
                    /\ SubSeq(str, 1, i - 1) = SubSeq(MaxNonce, 1, i - 1)
                    /\ DigitVal(str[i]) < DigitVal(MaxNonce[i])

\* one of the four public inputs is not of its size
MalformedInputs ==
    \/ ~IsHexOfSize(vArgs.factory, 20)
    \/ ~IsHexOfSize(vArgs.initCodeHash, 32)
    \/ ~IsHexOfSize(vArgs.initializerHash, 32)
    \/ /\ ~IsHexOfSize(vArgs.saltNonce, 32)
       /\ ~(vScript = LibVerify /\ IsDecimalBelow2To256(vArgs.saltNonce))

\* C26: verify.js in formula mode rejects malformed public inputs: with a
\* factory that is not 20 bytes, an init-code hash or initializer hash that
\* is not 32 bytes or a salt nonce that is no 32-byte value it prints an
\* error, exits with status 1 and prints no address
C26_RejectsMalformed ==
    (vOut.called /\ MalformedInputs) =>
        /\ vOut.exit = 1
        /\ vOut.error # ""
        /\ vOut.printed = {}

(***************************************************************************)
(* SpecDeploy: what deploySafe and the two deploy.js hand to               *)
(* createProxyWithNonce, next to what the predicted address is computed    *)
(* from.  The Safe deployments package, the chain and viem's ABI encoder   *)
(* are outside the repository: addresses and creation code are fixed       *)
(* values, and the encoding of setup(...) is a byte string that holds      *)
(* every argument the scripts vary.                                        *)
(***************************************************************************)
LibDeploySafe == "lib/deploy.js deploySafe"

\* const ZERO = '0x0000000000000000000000000000000000000000'
ZERO == <<"0", "x">> \o [i \in 1..40 |-> "0"]

\* networkAddresses[chainId] of the deployments package
FactoryAddress == EncodeHex(GenBytes(1, 20), TRUE, TRUE)
SingletonAddress == EncodeHex(GenBytes(5, 20), TRUE, TRUE)
SingletonL2Address == EncodeHex(GenBytes(6, 20), TRUE, TRUE)
CompatibilityFallbackHandler == EncodeHex(GenBytes(8, 20), TRUE, TRUE)

\* what proxyCreationCode() of the factory returns
ProxyCreationCode == <<"0", "x">> \o EncodeHex(GenBytes(9, 24), FALSE, FALSE)

\* viem keccak256 of a 0x hex string, as a 0x hex string
viemKeccak256(hex) == <<"0", "x">> \o BufToHex(jsKeccak256(BufferFromHex(strip0x(hex))))

RECURSIVE AddressBytes(_, _)
AddressBytes(addresses, i) ==
    IF i > Len(addresses) THEN <<>>
    ELSE BufferFromHex(toLowerCase(strip0x(addresses[i]))) \o AddressBytes(addresses, i + 1)

\* encodeFunctionData({ abi: SAFE_SETUP_ABI, functionName: 'setup', args:
\* [owners, threshold, ZERO, '0x', fallbackHandler, ZERO, 0, ZERO] })
encodeSetup(owners, threshold, fallbackHandler) ==
    <<"0", "x">> \o BufToHex(<<182, 62, 128, 13>> \o <<Len(owners)>> \o AddressBytes(owners, 1)
                             \o <<threshold>> \o AddressBytes(<<fallbackHandler>>, 1))

\* owners.map(ensure0x)
MapEnsure0x(owners) == [i \in 1..Len(owners) |-> ensure0x(owners[i])]

\* fetchSafeConfig(owners, threshold, config); the standalone deploy.js
\* has the same statements in its main()
fetchSafeConfig(owners, threshold, cfg) ==
    LET factoryAddress == FactoryAddress
        singletonAddress == IF cfg.useL2 THEN SingletonL2Address ELSE SingletonAddress
        fallbackHandler == IF cfg.fallbackHandler = <<>> THEN CompatibilityFallbackHandler
                           ELSE cfg.fallbackHandler
        creationCode == strip0x(ProxyCreationCode)
        singletonPadded == padStart0(strip0x(ensure0x(singletonAddress)), 64)
        deploymentDataHex == <<"0", "x">> \o creationCode \o singletonPadded
        initializerCalldata == encodeSetup(MapEnsure0x(owners), threshold,
                                           ensure0x(fallbackHandler))
    IN  [factory |-> factoryAddress,
         initCodeHash |-> viemKeccak256(deploymentDataHex),
         initializerHash |-> viemKeccak256(initializerCalldata),
         fallbackHandler |-> ensure0x(fallbackHandler),
         singletonAddress |-> singletonAddress,
         initializerCalldata |-> initializerCalldata]

\* a plausible slip: the handler left at ZERO like the other address arguments
deploy_initializerCalldata_zeroHandler(owners, threshold, sc) ==
    encodeSetup(MapEnsure0x(owners), threshold, ZERO)

\* deploySafe and deploy.js encode the initializer again, from safeConfig
deploy_initializerCalldata(owners, threshold, sc) ==
    encodeSetup(MapEnsure0x(owners), threshold, sc.fallbackHandler)

\* the bytes of a BigInt, most significant first, without leading zeros
BigIntBytes(n) ==
    LET top == IF \A k \in 1..Len(n) : n[k] = 0 THEN 1
               ELSE CHOOSE k \in 1..Len(n) : n[k] # 0 /\ \A j \in (k + 1)..Len(n) : n[j] = 0
    IN  [k \in 1..top |-> n[top + 1 - k]]

\* deploySafe / main of deploy.js up to walletClient.writeContract: the call
\* made and the inputs of the formula
DeployCall(dscript, in) ==
    LET sc == fetchSafeConfig(in.owners, in.threshold, in.config)
        saltNonceBigInt == BigIntWide(in.saltNonce)
        initializerCalldata ==
            IF dscript = StandaloneDeploy THEN sc.initializerCalldata
            ELSE deploy_initializerCalldata(in.owners, in.threshold, sc)
        saltNonceBytes ==
            IF dscript = LibDeploySafe
            THEN saltNonceDecimalToBytes(DecimalString(BigIntBytes(saltNonceBigInt)))
            ELSE saltNonceDecimalToBytes(in.saltNonce)
    IN  [called |-> TRUE,
         address |-> sc.factory,
         args |-> <<sc.singletonAddress, initializerCalldata, saltNonceBigInt>>,
         formula |-> [factory |-> sc.factory, initCodeHash |-> sc.initCodeHash,
                      initializerHash |-> sc.initializerHash,
                      saltNonceBytes |-> saltNonceBytes],
         predicted |-> toChecksumAddress(computeCreate2Address(sc.factory,
                           sc.initCodeHash, sc.initializerHash, saltNonceBytes))]

NoDeployCall == [called |-> FALSE]

OwnerA == EncodeHex(GenBytes(31, 20), TRUE, FALSE)
OwnerB == EncodeHex(GenBytes(32, 20), FALSE, TRUE)

\* salt nonces in [0, 2^256)
DeployNonces ==
    {<<"0">>, <<"0", "0", "7">>, MinerSaltDec(1), DigitRun(40), DigitRun(64),
     <<"1">> \o [i \in 1..77 |-> "0"], MaxNonce}

DeployInputs ==
    [owners : {<<OwnerA>>, <<OwnerA, OwnerB>>, <<OwnerB, OwnerA>>},
     threshold : {1, 2},
     config : [useL2 : BOOLEAN,
               fallbackHandler : {<<>>, EncodeHex(GenBytes(33, 20), FALSE, FALSE)}],
     saltNonce : DeployNonces]

DeployInit ==
    /\ dScript \in {LibDeploySafe, SdkDeploy, StandaloneDeploy}
    /\ dIn \in {in \in DeployInputs : in.threshold <= Len(in.owners)}
    /\ dOut = NoDeployCall

DeployIdle ==
    /\ dScript = "none"
    /\ dIn = [owners |-> <<>>, threshold |-> 0,
              config |-> [useL2 |-> FALSE, fallbackHandler |-> <<>>], saltNonce |-> <<>>]
    /\ dOut = NoDeployCall

\* walletClient.writeContract({ address, functionName: 'createProxyWithNonce', args })
WriteContract ==
    /\ ~dOut.called
    /\ dOut' = DeployCall(dScript, dIn)
    /\ UNCHANGED <<dScript, dIn, outsideDeploy>>

DeployNext == WriteContract

(***************************************************************************)
(* Claims about the deployment call                                        *)
(***************************************************************************)
\* C25: the factory called, the singleton, the initializer calldata and the
\* salt nonce passed to createProxyWithNonce are the inputs of the predicted
\* address: the keccak256 of the calldata passed is the initializerHash of
\* the formula, the formula's 32 bytes encode big-endian the integer passed
\* as uint256 (the one the salt nonce string denotes), the factory called is
\* the formula's, and the singleton passed is the one in the init code hash
C25_CallMatchesFormula ==
    dOut.called =>
        /\ dOut.address = dOut.formula.factory
        /\ viemKeccak256(dOut.args[2]) = dOut.formula.initializerHash
        /\ Len(dOut.formula.saltNonceBytes) = 32
        /\ DecimalString(dOut.formula.saltNonceBytes) = DecimalString(BigIntBytes(dOut.args[3]))
        /\ DecimalString(dOut.formula.saltNonceBytes) = Unpadded(dIn.saltNonce)
        /\ dOut.formula.initCodeHash =
               viemKeccak256(ProxyCreationCode \o padStart0(strip0x(dOut.args[1]), 64))
        /\ dOut.predicted = toChecksumAddress(computeCreate2Address(dOut.address,
               dOut.formula.initCodeHash, viemKeccak256(dOut.args[2]),
               dOut.formula.saltNonceBytes))

\* deploySafe has made the call for two owners, the default fallback
\* handler and the largest salt nonce
C25_Witness ==
    /\ dScript = LibDeploySafe
    /\ dOut.called
    /\ dIn.owners = <<OwnerA, OwnerB>>
    /\ dIn.config.fallbackHandler = <<>>
    /\ dIn.saltNonce = MaxNonce
    /\ dOut.args[1] = (IF dIn.config.useL2 THEN SingletonL2Address ELSE SingletonAddress)

(***************************************************************************)
(* SpecField: fp_mul called on pairs of field elements.                    *)
(***************************************************************************)
\* p - 1 and p - 2
PMinus1 == uint256_sub(SECP256K1_P, Small(1)).r

\* the field elements multiplied: small ones, the largest ones, coordinates
\* of G and 2 G, a power of two, and elements with limbs of all ones
FieldInputs ==
    {Small(0), ONE, Small(2), PMinus1, PMinus2,
     load_uint256_be(Multiples[1], 0), load_uint256_be(Multiples[1], 32),
     load_uint256_be(Multiples[2], 0),
     [k \in 1..32 |-> IF k = 17 THEN 1 ELSE 0],
     [k \in 1..32 |-> IF k <= 4 THEN 255 ELSE 0],
     [k \in 1..32 |-> IF k > 16 THEN 255 ELSE 0]}

FieldInit ==
    /\ qA \in FieldInputs
    /\ qB \in FieldInputs
    /\ qOut = NotCalled

FieldIdle ==
    /\ qA = Small(0)
    /\ qB = Small(0)
    /\ qOut = NotCalled

\* fp_mul(&r, &a, &b)
CallFpMul ==
    /\ ~qOut.called
    /\ qOut' = Returned(fp_mul(qA, qB))
    /\ UNCHANGED <<qA, qB, outsideField>>

FieldNext == CallFpMul

(***************************************************************************)
(* Claims about fp_mul                                                     *)
(***************************************************************************)
\* column k of the product of two numbers given by their bytes
RECURSIVE ColumnSum(_, _, _, _)
ColumnSum(a, b, k, i) ==
    IF i > Len(a) THEN 0
    ELSE (IF k + 1 - i >= 1 /\ k + 1 - i <= Len(b) THEN a[i] * b[k + 1 - i] ELSE 0)
         + ColumnSum(a, b, k, i + 1)

\* a b, as Len(a) + Len(b) bytes
WideProduct(a, b) == Carry([k \in 1..(Len(a) + Len(b)) |-> ColumnSum(a, b, k, 1)], 1, 0)

\* 2^256 - p = 2^32 + 977 = 0x1000003D1
TwoTo256MinusP == <<209, 3, 0, 0, 1>>

\* without the zero bytes at the top, down to 32 bytes
RECURSIVE Trimmed(_)
Trimmed(t) ==
    IF Len(t) > 32 /\ t[Len(t)] = 0 THEN Trimmed(SubSeq(t, 1, Len(t) - 1)) ELSE t

\* t = hi 2^256 + lo is congruent to lo + hi (2^256 - p) mod p
RECURSIVE FoldedModP(_)
FoldedModP(t) ==
    IF Len(t) <= 32 THEN t
    ELSE LET lo == SubSeq(t, 1, 32)
             hi == WideProduct(SubSeq(t, 33, Len(t)), TwoTo256MinusP)
         IN  FoldedModP(Trimmed(
                 Carry([k \in 1..((IF Len(hi) > 32 THEN Len(hi) ELSE 32) + 1) |->
                            ByteAt(lo, k) + ByteAt(hi, k)], 1, 0)))

\* v < 2^256 brought below p: v >= p exactly when v + (2^256 - p) >= 2^256
BelowP(v) ==
    LET s == Carry([k \in 1..33 |-> ByteAt(v, k) + ByteAt(TwoTo256MinusP, k)], 1, 0)
    IN  IF s[33] = 1 THEN SubSeq(s, 1, 32) ELSE v

\* (a b) mod p
ProductModP(a, b) == BelowP(FoldedModP(Trimmed(WideProduct(a, b))))

\* C24: for a, b in [0, p) fp_mul returns (a b) mod p, a value in [0, p)
C24_FpMulExact ==
    qOut.called =>
        /\ qOut.value = ProductModP(qA, qB)
        /\ BelowP(qOut.value) = qOut.value

(***************************************************************************)
(* SpecConfig: main() of executor/run.js from loadConfig(cli.config) to    *)
(* the arguments it hands to fetchSafeConfig and to the miner.             *)
(***************************************************************************)
Settings ==
    {"chainId", "rpcUrl", "useL2", "safeVersion", "fallbackHandler", "minerPath",
     "workers", "count", "reportInterval", "suffix", "patternType", "caseSensitive"}

\* most flags given in one run, besides the run with all of them
MaxFlags == 2

\* what parseArgs stores for each flag when it is given (--l2 and
\* --case-sensitive take no value)
FlagValues ==
    [chainId |-> "137",
     rpcUrl |-> "https://rpc.example/cli",
     useL2 |-> "true",
     safeVersion |-> "1.3.0",
     fallbackHandler |-> "0xfd0732Dc9E303f09fCEf3a7388Ad10A83459Ec99",
     minerPath |-> "./target/release/safe_vanity",
     workers |-> "8",
     count |-> "007",
     reportInterval |-> "30",
     suffix |-> "beef",
     patternType |-> "contains",
     caseSensitive |-> "true"]

\* parseArgs: out starts with null everywhere (deploy: false)
CliOf(given) ==
    [k \in Settings \cup {"deploy", "privateKey"} |->
        IF k \in given THEN FlagValues[k]
        ELSE IF k = "deploy" THEN "false" ELSE "null"]

\* the places loadConfig looks in, in the order of its paths array
CandidatePaths ==
    <<"configPath", "SAFE_VANITY_CONFIG", "cwd/safe-vanity.config.json",
      "cwd/verify-with-safe-sdk/safe-vanity.config.json",
      "lib/../safe-vanity.config.json">>

\* what each candidate file holds when it parses; every file names another
\* chain
FileContents ==
    [p \in {CandidatePaths[i] : i \in 1..Len(CandidatePaths)} |->
        IF p = "configPath" THEN
            [chainId |-> "1", rpcUrl |-> "https://rpc.example/explicit",
             count |-> "3", suffix |-> "cafe"]
        ELSE IF p = "SAFE_VANITY_CONFIG" THEN
            [chainId |-> "10", useL2 |-> "true", workers |-> "4",
             patternType |-> "suffix"]
        ELSE IF p = "cwd/safe-vanity.config.json" THEN
            [chainId |-> "42161", safeVersion |-> "1.3.0", reportInterval |-> "10",
             caseSensitive |-> "true", minerPath |-> "/opt/safe_vanity"]
        ELSE IF p = "cwd/verify-with-safe-sdk/safe-vanity.config.json" THEN
            [chainId |-> "8453", count |-> "5",
             fallbackHandler |-> "0xf48f2B2d2a534e402487b3ee7C18c33Aec0Fe5e4"]
        ELSE
            [chainId |-> "84532", rpcUrl |-> "https://rpc.example/packaged",
             useL2 |-> "false", workers |-> "2"]]

\* a candidate: no path given (configPath and the environment variable only),
\* no such file, a file that is not JSON, a file that parses
FileStates(p) ==
    IF p \in {"configPath", "SAFE_VANITY_CONFIG"}
    THEN {"unset", "missing", "broken", "ok"}
    ELSE {"missing", "broken", "ok"}

\* loadConfig, the loop: the first path that is set, exists and parses
RECURSIVE FirstLoaded(_, _)
FirstLoaded(files, i) ==
    IF i > Len(CandidatePaths) THEN "none"
    ELSE IF files[CandidatePaths[i]] = "ok" THEN CandidatePaths[i]
    ELSE FirstLoaded(files, i + 1)

Loaded(p) == IF p = "none" THEN [chainId |-> "absent"] ELSE FileContents[p]

\* v ?? d
Coalesce(v, d) == IF NotNullish(v) THEN v ELSE d

\* what main() and fetchSafeConfig do with the merged config: the filter and
\* the transport of fetchSafeConfig, resolveMiner and minerArgs ("null": the
\* option is not passed on)
Used(c) ==
    [chainId |-> Coalesce(c.chainId, DEFAULT_CONFIG.chainId),
     rpcUrl |-> c.rpcUrl,
     useL2 |-> IF Truthy(c.useL2) THEN "true" ELSE "false",
     safeVersion |-> IF Truthy(c.safeVersion) THEN c.safeVersion ELSE "null",
     fallbackHandler |-> IF Truthy(Coalesce(c.fallbackHandler, "null"))
                         THEN c.fallbackHandler ELSE "null",
     minerPath |-> IF Truthy(c.minerPath) THEN c.minerPath ELSE "safe_vanity",
     workers |-> IF NotNullish(c.workers) THEN c.workers ELSE "null",
     count |-> Coalesce(c.count, "1"),
     reportInterval |-> Coalesce(c.reportInterval, "5"),
     suffix |-> IF NotNullish(c.suffix) THEN c.suffix ELSE "null",
     patternType |-> IF Truthy(c.patternType) /\ c.patternType # "prefix"
                     THEN c.patternType ELSE "prefix",
     caseSensitive |-> IF Truthy(c.caseSensitive) THEN "true" ELSE "false"]

ConfigInit ==
    /\ \E given \in SUBSET Settings :
           /\ Cardinality(given) <= MaxFlags \/ given = Settings
           /\ gCli = CliOf(given)
    /\ gFiles \in [{CandidatePaths[i] : i \in 1..Len(CandidatePaths)} ->
                       {"unset", "missing", "broken", "ok"}]
    /\ \A p \in DOMAIN gFiles : gFiles[p] \in FileStates(p)
    /\ gPc = "start"
    /\ gLoaded = "none"
    /\ gFileConfig = DEFAULT_CONFIG
    /\ gConfig = DEFAULT_CONFIG
    /\ gUsed = Used(DEFAULT_CONFIG)

ConfigIdle ==
    /\ gCli = CliOf({})
    /\ gFiles = [p \in {CandidatePaths[i] : i \in 1..Len(CandidatePaths)} |-> "missing"]
    /\ gPc = "idle"
    /\ gLoaded = "none"
    /\ gFileConfig = DEFAULT_CONFIG
    /\ gConfig = DEFAULT_CONFIG
    /\ gUsed = Used(DEFAULT_CONFIG)

\* fileConfig = loadConfig(cli.config); config = mergeConfig(fileConfig, cli);
\* the uses of config up to spawn
MainConfig ==
    /\ gPc = "start"
    /\ gLoaded' = FirstLoaded(gFiles, 1)
    /\ gFileConfig' = loadConfig(Loaded(gLoaded'))
    /\ gConfig' = mergeConfig(gFileConfig', gCli)
    /\ gUsed' = Used(gConfig')
    /\ gPc' = "spawned"
    /\ UNCHANGED <<gCli, gFiles, outsideConfig>>

ConfigNext == MainConfig

(***************************************************************************)
(* Claims about the configuration                                          *)
(***************************************************************************)
\* the numbers the numeric flag values denote, as JavaScript prints them
FlagNumbers == [count |-> "7", reportInterval |-> "30"]

\* the value a setting should have: the flag's when given, else the loaded
\* file's when it defines the key, else the default
Precedence(k) ==
    IF gCli[k] # "null" THEN
        IF k \in DOMAIN FlagNumbers THEN FlagNumbers[k] ELSE FlagValues[k]
    ELSE IF gLoaded # "none" /\ k \in DOMAIN FileContents[gLoaded] THEN
        FileContents[gLoaded][k]
    ELSE DEFAULT_CONFIG[k]

DocumentedPaths ==
    <<"configPath", "cwd/safe-vanity.config.json",
      "cwd/verify-with-safe-sdk/safe-vanity.config.json", "SAFE_VANITY_CONFIG">>

RECURSIVE FirstDocumented(_)
FirstDocumented(i) ==
    IF i > Len(DocumentedPaths) THEN "none"
    ELSE IF gFiles[DocumentedPaths[i]] = "ok" THEN DocumentedPaths[i]
    ELSE FirstDocumented(i + 1)

\* C27: loadConfig returns DEFAULT_CONFIG overlaid with the first candidate
\* that exists and parses, the candidates being tried in the order explicit
\* configPath, ./safe-vanity.config.json,
\* ./verify-with-safe-sdk/safe-vanity.config.json, env SAFE_VANITY_CONFIG;
\* when none of them loads the defaults alone are returned
C27_DocumentedOrder ==
    gPc = "spawned" =>
        gFileConfig =
            [k \in DOMAIN DEFAULT_CONFIG |->
                IF /\ FirstDocumented(1) # "none"
                   /\ k \in DOMAIN FileContents[FirstDocumented(1)]
                THEN FileContents[FirstDocumented(1)][k]
                ELSE DEFAULT_CONFIG[k]]

(***************************************************************************)
(* Claims about run.js and deploy.js                                       *)
(***************************************************************************)
\* deploySafe of the executor has been called, or something it does has happened
DeploySafeCalled ==
    \/ "Deploying..." \in printed
    \/ pc \in {"deploying", "sending", "waiting"}
    \/ walletClient
    \/ txs # <<>>

\* C2: executor/run.js calls deploySafe, and so sends a deployment
\* transaction, only if --deploy was passed on the command line, the address
\* recomputed from the miner's salt nonce equals the address the miner
\* printed, and the answer to the prompt is y or yes (trimmed, any case); a
\* config file's deploy: true, an empty answer or any other answer sends nothing.
C2_DeployOnlyWhenConfirmed ==
    (script = ExecutorRun /\ DeploySafeCalled) =>
        /\ cli.deploy = "true"
        /\ verified.ran
        /\ \E i \in 1..Len(child.matches) :
               /\ verified.address = MinerAddress(i, child.matches[i])
               /\ verified.saltDec = MinerSaltDec(i)
        /\ toLowerCase(FormulaChecksum(TheSafeConfig, verified.saltDec))
               = toLowerCase(verified.address)
        /\ toLowerCase(trim(answer)) \in {<<"y">>, <<"y", "e", "s">>}
        /\ \A k \in 1..Len(txs) : txs[k].saltNonce = BigInt(verified.saltDec)

C2_Witness ==
    /\ script = ExecutorRun
    /\ Len(txs) = 1
    /\ answer = <<" ", "Y", "E", "S", " ">>

\* C3: when the miner printed a match and exited with code 0, run.js runs
\* the verification on the address and the full decimal salt of the last
\* match printed, however stdout is cut into chunks and whenever the exit
\* event comes.
C3_VerifiesLastMatch ==
    (/\ script \in RunScripts
     /\ child.exit = "code 0"
     /\ Len(child.matches) >= 1
     /\ pc = "exited"
     /\ "Error: predictSafeAddress" \notin printed) =>
        /\ verified.ran
        /\ verified.address = MinerAddress(Len(child.matches),
                                           child.matches[Len(child.matches)])
        /\ verified.saltDec = MinerSaltDec(Len(child.matches))

C5_DryRun ==
    (script \in DeployScripts /\ cli.deploy = "false") =>
        /\ ~walletClient
        /\ txs = <<>>
        /\ receipt = "none"
        /\ pc \in {"start", "fetching", "exited"}
        /\ safeConfig # NoSafeConfig =>
               /\ {"Predicted address", "Dry run"} \subseteq printed
               /\ pc = "exited" /\ exitStatus = 0

C5_Witness ==
    /\ script \in DeployScripts
    /\ cli.deploy = "false"
    /\ "Dry run" \in printed
    /\ verified.predicted = FormulaChecksum(TheSafeConfig, cli.saltNonce)
\* --deploy on the command line and no deployer key anywhere the script looks
DeployWithoutKey ==
    /\ script \in {ExecutorRun, SdkDeploy, StandaloneDeploy}
    /\ cli.deploy = "true"
    /\ cli.privateKey = "null"
    /\ script = ExecutorRun => ~envKey

\* C20: with --deploy and no deployer key (run.js: neither --private-key nor
\* SAFE_DEPLOYER_PRIVATE_KEY; the two deploy.js: no --private-key) the script
\* prints an error and exits with status 1, and the Safe config is never
\* fetched, the miner never started and no transaction ever sent
C20_DeployNeedsKey ==
    DeployWithoutKey =>
        /\ pc \in {"start", "exited"}
        /\ safeConfig = NoSafeConfig
        /\ ~child.spawned
        /\ ~walletClient
        /\ txs = <<>>
        /\ pc = "exited" =>
               /\ exitStatus = 1
               /\ printed # {}
               /\ printed \subseteq {"Usage", "Error: --deploy requires a private key"}
               /\ cli.required => "Error: --deploy requires a private key" \in printed

C20_Witness ==
    /\ DeployWithoutKey
    /\ script = SdkDeploy
    /\ cli.required
    /\ pc = "exited"
    /\ exitStatus = 1
    /\ "Error: --deploy requires a private key" \in printed

\* C28: run.js goes on to the verification and the deploy only when the
\* miner exited with code 0; after a non-zero code, a signal or a failure to
\* spawn it has ended with status 1 and has verified and deployed nothing
C28_MinerMustExitZero ==
    (script \in RunScripts /\ child.exit \in {"code 1", "signal", "error"}) =>
        /\ pc = "exited" /\ exitStatus = 1
        /\ verified = NotVerified
        /\ ~walletClient /\ txs = <<>>
        /\ printed \cap {"--- Verification ---", "Deploying...", "Safe deployed at"} = {}

\* C29: 'Safe deployed at' is printed only for a receipt of status
\* 'success', and after a reverted transaction the script has exited with
\* status 1
C29_DeployedMeansSuccess ==
    /\ "Safe deployed at" \in printed => receipt = "success"
    /\ receipt = "reverted" => (pc = "exited" /\ exitStatus = 1)

(***************************************************************************)
(* Specifications                                                          *)
(***************************************************************************)
InitFormula == FormulaInit /\ RunIdle /\ KernelIdle /\ PoolIdle /\ MatchIdle /\ CurveIdle /\ KeccakIdle /\ NonceIdle /\ VerifyIdle /\ DeployIdle /\ FieldIdle /\ ConfigIdle
SpecFormula == InitFormula /\ [][FormulaNext]_vars

InitRun == RunInit /\ FormulaIdle /\ KernelIdle /\ PoolIdle /\ MatchIdle /\ CurveIdle /\ KeccakIdle /\ NonceIdle /\ VerifyIdle /\ DeployIdle /\ FieldIdle /\ ConfigIdle
SpecRun == InitRun /\ [][RunNext]_vars

InitKernel == KernelInit /\ FormulaIdle /\ RunIdle /\ PoolIdle /\ MatchIdle /\ CurveIdle /\ KeccakIdle /\ NonceIdle /\ VerifyIdle /\ DeployIdle /\ FieldIdle /\ ConfigIdle
SpecKernel == InitKernel /\ [][KernelNext]_vars

InitPool == PoolInit /\ FormulaIdle /\ RunIdle /\ KernelIdle /\ MatchIdle /\ CurveIdle /\ KeccakIdle /\ NonceIdle /\ VerifyIdle /\ DeployIdle /\ FieldIdle /\ ConfigIdle
SpecPool == InitPool /\ [][PoolNext]_vars

InitMatch == MatchInit /\ FormulaIdle /\ RunIdle /\ KernelIdle /\ PoolIdle /\ CurveIdle /\ KeccakIdle /\ NonceIdle /\ VerifyIdle /\ DeployIdle /\ FieldIdle /\ ConfigIdle
SpecMatch == InitMatch /\ [][MatchNext]_vars

InitCurve == CurveInit /\ FormulaIdle /\ RunIdle /\ KernelIdle /\ PoolIdle /\ MatchIdle /\ KeccakIdle /\ NonceIdle /\ VerifyIdle /\ DeployIdle /\ FieldIdle /\ ConfigIdle
SpecCurve == InitCurve /\ [][CurveNext]_vars

InitKeccak == KeccakInit /\ FormulaIdle /\ RunIdle /\ KernelIdle /\ PoolIdle /\ MatchIdle /\ CurveIdle /\ NonceIdle /\ VerifyIdle /\ DeployIdle /\ FieldIdle /\ ConfigIdle
SpecKeccak == InitKeccak /\ [][KeccakNext]_vars

InitNonce == NonceInit /\ FormulaIdle /\ RunIdle /\ KernelIdle /\ PoolIdle /\ MatchIdle /\ CurveIdle /\ KeccakIdle /\ VerifyIdle /\ DeployIdle /\ FieldIdle /\ ConfigIdle
SpecNonce == InitNonce /\ [][NonceNext]_vars

InitVerify == VerifyInit /\ FormulaIdle /\ RunIdle /\ KernelIdle /\ PoolIdle /\ MatchIdle /\ CurveIdle /\ KeccakIdle /\ NonceIdle /\ DeployIdle /\ FieldIdle /\ ConfigIdle
SpecVerify == InitVerify /\ [][VerifyNext]_vars

InitDeploy == DeployInit /\ FormulaIdle /\ RunIdle /\ KernelIdle /\ PoolIdle /\ MatchIdle /\ CurveIdle /\ KeccakIdle /\ NonceIdle /\ VerifyIdle /\ FieldIdle /\ ConfigIdle
SpecDeploy == InitDeploy /\ [][DeployNext]_vars

InitField == FieldInit /\ FormulaIdle /\ RunIdle /\ KernelIdle /\ PoolIdle /\ MatchIdle /\ CurveIdle /\ KeccakIdle /\ NonceIdle /\ VerifyIdle /\ DeployIdle /\ ConfigIdle
SpecField == InitField /\ [][FieldNext]_vars

InitConfig == ConfigInit /\ FormulaIdle /\ RunIdle /\ KernelIdle /\ PoolIdle /\ MatchIdle /\ CurveIdle /\ KeccakIdle /\ NonceIdle /\ VerifyIdle /\ DeployIdle /\ FieldIdle
SpecConfig == InitConfig /\ [][ConfigNext]_vars

=============================================================================
